---- MODULE Spec2Model ----
(***************************************************************************)
(* A model of the file-serving engine of dir_server (src/server.py):       *)
(* CustomHTTPRequestHandler.do_GET, create_zip, list_directory and the     *)
(* string and path functions they rest on.                                 *)
(*                                                                         *)
(* Text is modelled as it is in the program: a string is a sequence of     *)
(* one-character strings, so that endswith, slicing, splitting, percent    *)
(* decoding and HTML escaping are computed, not assumed.  A filesystem     *)
(* path is a sequence of names (the components of an absolute path).       *)
(*                                                                         *)
(* Two handler threads may be inside do_GET at the same time, as under a   *)
(* threading server; the behaviours of a server that handles one request   *)
(* after the other are among those of the model.                           *)
(***************************************************************************)
EXTENDS Integers, Sequences, FiniteSets, TLC

(***************************************************************************)
(* Strings                                                                 *)
(***************************************************************************)

\* str.startswith(p)
StartsWith(s, p) ==
    /\ Len(p) <= Len(s)
    /\ SubSeq(s, 1, Len(p)) = p

\* str.endswith(p)
EndsWith(s, p) ==
    /\ Len(p) <= Len(s)
    /\ SubSeq(s, Len(s) - Len(p) + 1, Len(s)) = p

\* s[:-n]
DropLast(s, n) == SubSeq(s, 1, Len(s) - n)

\* c in s
Contains(s, c) == \E i \in 1..Len(s) : s[i] = c

\* s.find(c) + 1: the first position of c in s, 0 when there is none
FindFirst(s, c) ==
    IF Contains(s, c) THEN CHOOSE i \in 1..Len(s) : s[i] = c /\ \A j \in 1..(i-1) : s[j] # c
    ELSE 0

\* s.rfind(c) + 1: the last position of c in s, 0 when there is none
FindLast(s, c) ==
    IF Contains(s, c) THEN CHOOSE i \in 1..Len(s) : s[i] = c /\ \A j \in (i+1)..Len(s) : s[j] # c
    ELSE 0

\* s.split(c, 1)[0]
SplitHead(s, c) ==
    IF Contains(s, c) THEN SubSeq(s, 1, FindFirst(s, c) - 1) ELSE s

\* s.split(c)[-1]
SplitLast(s, c) ==
    IF Contains(s, c) THEN SubSeq(s, FindLast(s, c) + 1, Len(s)) ELSE s

\* s.split(c): the sequence of the pieces of s between occurrences of c
RECURSIVE Split(_, _)
Split(s, c) ==
    IF ~Contains(s, c) THEN <<s>>
    ELSE <<SubSeq(s, 1, FindFirst(s, c) - 1)>>
            \o Split(SubSeq(s, FindFirst(s, c) + 1, Len(s)), c)

\* the concatenation of the strings of a sequence
RECURSIVE Concat(_)
Concat(ss) == IF ss = <<>> THEN <<>> ELSE Head(ss) \o Concat(Tail(ss))

\* [x for x in ss if keep(x)]
RECURSIVE SelectNonEmpty(_)
SelectNonEmpty(ss) ==
    IF ss = <<>> THEN <<>>
    ELSE IF Head(ss) = <<>> THEN SelectNonEmpty(Tail(ss))
    ELSE <<Head(ss)>> \o SelectNonEmpty(Tail(ss))

\* The percent escapes of the characters the model's requests and names use
\* (hexadecimal digits in either case, as urllib.parse.unquote reads them).
HexTable ==
    (<<"2", "0">> :> " ") @@ (<<"2", "2">> :> "\"") @@ (<<"2", "3">> :> "#") @@
    (<<"2", "5">> :> "%") @@ (<<"2", "6">> :> "&") @@ (<<"2", "7">> :> "'") @@
    (<<"2", "b">> :> "+") @@ (<<"2", "B">> :> "+") @@
    (<<"2", "e">> :> ".") @@ (<<"2", "E">> :> ".") @@
    (<<"2", "f">> :> "/") @@ (<<"2", "F">> :> "/") @@
    (<<"3", "b">> :> ";") @@ (<<"3", "B">> :> ";") @@
    (<<"3", "c">> :> "<") @@ (<<"3", "C">> :> "<") @@
    (<<"3", "d">> :> "=") @@ (<<"3", "D">> :> "=") @@
    (<<"3", "e">> :> ">") @@ (<<"3", "E">> :> ">") @@
    (<<"3", "f">> :> "?") @@ (<<"3", "F">> :> "?")

\* urllib.parse.unquote
RECURSIVE unquote(_)
unquote(s) ==
    IF s = <<>> THEN <<>>
    ELSE IF s[1] = "%" /\ Len(s) >= 3 /\ <<s[2], s[3]>> \in DOMAIN HexTable
         THEN <<HexTable[<<s[2], s[3]>>]>> \o unquote(SubSeq(s, 4, Len(s)))
    ELSE <<s[1]>> \o unquote(Tail(s))

LowerLetters ==
    <<"a", "b", "c", "d", "e", "f", "g", "h", "i", "j", "k", "l", "m",
      "n", "o", "p", "q", "r", "s", "t", "u", "v", "w", "x", "y", "z">>

UpperLetters ==
    <<"A", "B", "C", "D", "E", "F", "G", "H", "I", "J", "K", "L", "M",
      "N", "O", "P", "Q", "R", "S", "T", "U", "V", "W", "X", "Y", "Z">>

Digits == <<"0", "1", "2", "3", "4", "5", "6", "7", "8", "9">>

\* The elements of a sequence
Range(q) == {q[i] : i \in 1..Len(q)}

\* The position of c in sequence q (c occurs in q)
IndexIn(q, c) == CHOOSE i \in 1..Len(q) : q[i] = c

\* The characters of the model in code point order.
CodePoints ==
    <<" ", "\"", "#", "%", "&", "'", "+", "-", ".", "/">> \o Digits
        \o <<";", "<", "=", ">", "?">> \o UpperLetters \o <<"_">> \o LowerLetters \o <<"~">>

\* c.lower() for each character of the model
LowerChar ==
    [c \in Range(CodePoints) |->
        IF c \in Range(UpperLetters) THEN LowerLetters[IndexIn(UpperLetters, c)] ELSE c]

\* str.lower()
Lower(s) == [i \in 1..Len(s) |-> LowerChar[s[i]]]

\* ord(c), as the position of c among the characters of the model
Ord == [c \in Range(CodePoints) |-> IndexIn(CodePoints, c)]

\* a < b for strings: Python's comparison of str, by code point
RECURSIVE StrLess(_, _)
StrLess(a, b) ==
    IF b = <<>> THEN FALSE
    ELSE IF a = <<>> THEN TRUE
    ELSE IF a[1] = b[1] THEN StrLess(Tail(a), Tail(b))
    ELSE Ord[a[1]] < Ord[b[1]]

\* needle in hay
IsSubstring(needle, hay) ==
    \E i \in 0..(Len(hay) - Len(needle)) : SubSeq(hay, i + 1, i + Len(needle)) = needle

\* The characters urllib.parse.quote leaves as they are (safe = '/'):
\* letters, digits, '_', '.', '-', '~' and '/'.
Unreserved ==
    Range(LowerLetters) \cup Range(UpperLetters) \cup Range(Digits) \cup {"_", ".", "-", "~", "/"}

\* The percent escape quote writes for a character that is not unreserved.
QuoteHex ==
    (" " :> <<"%", "2", "0">>) @@ ("\"" :> <<"%", "2", "2">>) @@ ("#" :> <<"%", "2", "3">>) @@
    ("%" :> <<"%", "2", "5">>) @@ ("&" :> <<"%", "2", "6">>) @@ ("'" :> <<"%", "2", "7">>) @@
    ("+" :> <<"%", "2", "B">>) @@ ("<" :> <<"%", "3", "C">>) @@ ("=" :> <<"%", "3", "D">>) @@
    (">" :> <<"%", "3", "E">>) @@ ("?" :> <<"%", "3", "F">>) @@ (";" :> <<"%", "3", "B">>)

\* urllib.parse.quote(s)
quote(s) ==
    Concat([i \in 1..Len(s) |-> IF s[i] \in Unreserved THEN <<s[i]>> ELSE QuoteHex[s[i]]])

\* An escape that leaves every character as it is.
escape_raw(s, quote_too) == s

\* html.escape(s, quote): & < > become entities, and with quote also " and '
escape(s, quote_too) ==
    Concat([i \in 1..Len(s) |->
        CASE s[i] = "&" -> <<"&", "a", "m", "p", ";">>
          [] s[i] = "<" -> <<"&", "l", "t", ";">>
          [] s[i] = ">" -> <<"&", "g", "t", ";">>
          [] quote_too /\ s[i] = "\"" -> <<"&", "q", "u", "o", "t", ";">>
          [] quote_too /\ s[i] = "'" -> <<"&", "#", "x", "2", "7", ";">>
          [] OTHER -> <<s[i]>>])

(***************************************************************************)
(* Paths                                                                   *)
(***************************************************************************)

\* Names used on the modelled filesystem and in the requests.
nSrv    == <<"s", "r", "v">>
nOut    == <<"o">>
nD      == <<"d">>
nSub    == <<"s", "u", "b">>
nATxt   == <<"a", ".", "t", "x", "t">>
nBBin   == <<"b", ".", "b", "i", "n">>
nCTxt   == <<"c", ".", "t", "x", "t">>
nTag    == <<"<", "b", ">", "&", "\"", "'">>
nXZip   == <<"x", ".", "z", "i", "p">>
nStatic == <<"s", "t", "a", "t", "i", "c">>
nSJs    == <<"s", ".", "j", "s">>
nMany   == <<"m">>
nT      == <<"t">>
nTest   == <<"T", "e", "s", "t", ".", "t", "x", "t">>
nAlpha  == <<"a", "l", "p", "h", "a">>
nTable  == <<"T", "A", "B", "L", "E", ".", "c", "s", "v">>
nU      == <<"u">>
nH      == <<"h">>
nHid    == <<".", "h", "i", "d">>
nV      == <<"v">>
nK    == <<"k">>
nRMd  == <<"r", ".", "m", "d">>

\* The second letters of the names in directory m: more names than one page
\* of a listing holds, each beginning with '&', in mixed case.
ManyLetters ==
    <<"a", "B", "c", "D", "e", "F", "g", "H", "i", "J", "k", "L", "m", "N",
      "o", "P", "q", "R", "s", "T", "u">>

\* STATIC_DIR_NAME
STATIC_DIR_NAME == nStatic

\* The archive suffix do_GET tests for and strips.
ZipSuffix == <<".", "z", "i", "p">>

\* The process working directory after os.chdir(shared_path): the shared
\* root, an absolute path.
Cwd == <<nSrv>>

\* os.getpid(), as the digits of the temporary file's name
Pid == <<"7">>

\* The step of posixpath.normpath's loop over the components.
RECURSIVE NormComps(_, _, _)
NormComps(comps, acc, initial_slashes) ==
    IF comps = <<>> THEN acc
    ELSE LET comp == Head(comps)
             rest == Tail(comps)
         IN IF comp = <<>> \/ comp = <<".">> THEN NormComps(rest, acc, initial_slashes)
            ELSE IF \/ comp # <<".", ".">>
                    \/ (~initial_slashes /\ acc = <<>>)
                    \/ (acc # <<>> /\ acc[Len(acc)] = <<".", ".">>)
                 THEN NormComps(rest, Append(acc, comp), initial_slashes)
            ELSE IF acc # <<>> THEN NormComps(rest, SubSeq(acc, 1, Len(acc) - 1), initial_slashes)
            ELSE NormComps(rest, acc, initial_slashes)

\* posixpath.normpath, returning the normalised path's components (the
\* leading slash of an absolute path is not a component)
normpath(path) == NormComps(Split(path, "/"), <<>>, StartsWith(path, <<"/">>))

\* The loop of translate_path over the words of the normalised path: a word
\* that is '.' or '..' is ignored, every other word is joined to the path.
RECURSIVE JoinWords(_, _)
JoinWords(path, words) ==
    IF words = <<>> THEN path
    ELSE IF Head(words) \in {<<".">>, <<".", ".">>} THEN JoinWords(path, Tail(words))
    ELSE JoinWords(Append(path, Head(words)), Tail(words))

\* A resolution that applies '..' to the joined path instead of dropping it.
RECURSIVE JoinWordsParent(_, _)
JoinWordsParent(path, words) ==
    IF words = <<>> THEN path
    ELSE IF Head(words) = <<".">> THEN JoinWordsParent(path, Tail(words))
    ELSE IF Head(words) = <<".", ".">>
         THEN JoinWordsParent(SubSeq(path, 1, Len(path) - 1), Tail(words))
    ELSE JoinWordsParent(Append(path, Head(words)), Tail(words))

translate_path_parent(path) ==
    JoinWordsParent(Cwd,
        SelectNonEmpty(Split(unquote(SplitHead(SplitHead(path, "?"), "#")), "/")))

\* SimpleHTTPRequestHandler.translate_path, as a pathlib.Path (do_GET wraps
\* the result in Path(), which drops the trailing slash): the query and the
\* fragment are cut off, the rest is percent-decoded, normalised, and its
\* words are joined to the working directory.
translate_path(path) ==
    JoinWords(Cwd, SelectNonEmpty(normpath(unquote(SplitHead(SplitHead(path, "?"), "#")))))

\* urlsplit(self.path).path.endswith('/') in SimpleHTTPRequestHandler.send_head
UrlPathEndsWithSlash(path) ==
    EndsWith(SplitHead(SplitHead(path, "#"), "?"), <<"/">>)

\* PurePath.name
PathName(p) == IF p = <<>> THEN <<>> ELSE p[Len(p)]

\* PurePath.parent
PathParent(p) == IF p = <<>> THEN <<>> ELSE SubSeq(p, 1, Len(p) - 1)

\* PurePath.suffix: the name from its last dot on, unless the dot is the
\* first or the last character of the name
PathSuffix(p) ==
    LET name == PathName(p)
        i    == FindLast(name, ".")
    IN IF 1 < i /\ i < Len(name) THEN SubSeq(name, i, Len(name)) ELSE <<>>

\* PurePath.with_suffix(suffix)
with_suffix(p, suffix) ==
    LET name == PathName(p)
        old  == PathSuffix(p)
    IN Append(PathParent(p), SubSeq(name, 1, Len(name) - Len(old)) \o suffix)

\* p lies inside the directory q (or is q)
IsUnder(p, q) == Len(q) <= Len(p) /\ SubSeq(p, 1, Len(q)) = q

(***************************************************************************)
(* The filesystem                                                          *)
(***************************************************************************)

\* A directory, a regular file, and a zip file with its entries (the
\* archive-relative paths written so far) and whether it has been closed.
\* readable: whether the process may enumerate the directory.
DirNode  ==
    [kind |-> "dir",  archive |-> FALSE, entries |-> {}, complete |-> TRUE, readable |-> TRUE]
FileNode ==
    [kind |-> "file", archive |-> FALSE, entries |-> {}, complete |-> TRUE, readable |-> TRUE]
ZipNode(entries, complete) ==
    [kind |-> "file", archive |-> TRUE, entries |-> entries, complete |-> complete,
     readable |-> TRUE]

\* A directory the process has no permission to enumerate.
UnreadableDirNode == [DirNode EXCEPT !.readable = FALSE]

\* The filesystem the server starts on: the shared root /srv with a
\* directory d (two files, one of them with markup characters in its name,
\* and a subdirectory), a directory whose name ends in .zip, the static
\* directory, a file outside the shared root, a directory m with more
\* entries than a page holds, a directory t with names in mixed case, a
\* directory u that cannot be enumerated, a directory h with a hidden file
\* and a directory k with a markdown file.
InitialFs ==
    (<<nSrv>> :> DirNode) @@
    (<<nSrv, nD>> :> DirNode) @@
    (<<nSrv, nD, nATxt>> :> FileNode) @@
    (<<nSrv, nD, nTag>> :> FileNode) @@
    (<<nSrv, nD, nSub>> :> DirNode) @@
    (<<nSrv, nD, nSub, nBBin>> :> FileNode) @@
    (<<nSrv, nXZip>> :> DirNode) @@
    (<<nSrv, nStatic>> :> DirNode) @@
    (<<nSrv, nStatic, nSJs>> :> FileNode) @@
    (<<nOut>> :> FileNode) @@
    (<<nSrv, nMany>> :> DirNode) @@
    [p \in {<<nSrv, nMany, <<"&", ManyLetters[i]>>>> : i \in 1..Len(ManyLetters)} |-> FileNode] @@
    (<<nSrv, nT>> :> DirNode) @@
    (<<nSrv, nT, nTest>> :> FileNode) @@
    (<<nSrv, nT, nAlpha>> :> DirNode) @@
    (<<nSrv, nT, nTable>> :> FileNode) @@
    (<<nSrv, nU>> :> UnreadableDirNode) @@
    (<<nSrv, nU, nV>> :> FileNode) @@
    (<<nSrv, nH>> :> DirNode) @@
    (<<nSrv, nH, nHid>> :> FileNode) @@
    (<<nSrv, nH, nV>> :> FileNode) @@
    (<<nSrv, nK>> :> DirNode) @@
    (<<nSrv, nK, nRMd>> :> FileNode)

\* os.path.exists / Path.exists
exists(f, p) == p \in DOMAIN f

\* Path.is_file
is_file(f, p) == p \in DOMAIN f /\ f[p].kind = "file"

\* Path.is_dir
is_dir(f, p) == p \in DOMAIN f /\ f[p].kind = "dir"

\* Path.iterdir: the immediate children of directory d
iterdir(f, d) == {p \in DOMAIN f : Len(p) = Len(d) + 1 /\ IsUnder(p, d)}

\* [fp for fp in Path(d).rglob('*') if fp.is_file()]
rglob_files(f, d) == {p \in DOMAIN f : p # d /\ IsUnder(p, d) /\ f[p].kind = "file"}

\* Path.relative_to
relative_to(p, d) == SubSeq(p, Len(d) + 1, Len(p))

\* The filesystem with node n at path p (created or replaced)
WriteNode(f, p, n) == [q \in (DOMAIN f) \cup {p} |-> IF q = p THEN n ELSE f[q]]

\* The filesystem without path p
RemoveNode(f, p) == [q \in (DOMAIN f) \ {p} |-> f[q]]

\* os.rename(src, dst) of a file
RenameNode(f, src, dst) ==
    [q \in ((DOMAIN f) \ {src}) \cup {dst} |-> IF q = dst THEN f[src] ELSE f[q]]

(***************************************************************************)
(* Classification of a request                                             *)
(***************************************************************************)

sTxt == <<".", "t", "x", "t">>
sJs  == <<".", "j", "s">>
sMd  == <<".", "m", "d">>

\* previewable_extensions of do_GET
previewable_extensions ==
    {sTxt, <<".", "c", "s", "v">>, <<".", "l", "o", "g">>, sMd,
     <<".", "j", "s", "o", "n">>, <<".", "x", "m", "l">>,
     <<".", "y", "a", "m", "l">>, <<".", "y", "m", "l">>, <<".", "i", "n", "i">>,
     <<".", "c", "f", "g">>, <<".", "p", "y">>, sJs, <<".", "h", "t", "m", "l">>,
     <<".", "c", "s", "s">>, <<".", "j", "a", "v", "a">>, <<".", "c">>,
     <<".", "c", "p", "p">>, <<".", "h">>, <<".", "c", "s">>, <<".", "r", "b">>,
     <<".", "p", "h", "p">>, <<".", "g", "o">>, <<".", "s", "w", "i", "f", "t">>,
     <<".", "t", "s">>, <<".", "s", "h">>, <<".", "b", "a", "s", "h">>,
     <<".", "s", "q", "l">>}

\* get_content_type: mimetypes.guess_type by the extension, for the
\* extensions of the model's files, 'application/octet-stream' otherwise
get_content_type(p) ==
    LET ext == Lower(PathSuffix(p))
    IN CASE ext = sTxt -> "text/plain"
         [] ext = sJs -> "text/javascript"
         [] ext = sMd -> "text/markdown"
         [] ext = ZipSuffix -> "application/zip"
         [] OTHER -> "application/octet-stream"

\* is_text_like of do_GET
is_text_like(p) ==
    \/ get_content_type(p) \in {"text/plain", "text/javascript", "text/markdown"}
    \/ get_content_type(p) \in {"application/json", "application/xml"}
    \/ Lower(PathSuffix(p)) \in previewable_extensions

\* self.path.startswith(f'/{STATIC_DIR_NAME}/')
IsStaticRequest(path) == StartsWith(path, <<"/">> \o STATIC_DIR_NAME \o <<"/">>)

\* self.path.endswith(".zip"): the test is made on the whole request
\* target, query string included
IsZipRequest(path) == EndsWith(path, ZipSuffix)

\* directory_rel_path = self.path[:-4]
directory_rel_path(path) == DropLast(path, 4)

(***************************************************************************)
(* The query string                                                        *)
(***************************************************************************)

kAction == <<"a", "c", "t", "i", "o", "n">>
kRender == <<"r", "e", "n", "d", "e", "r">>
kPage   == <<"p", "a", "g", "e">>
kSearch == <<"s", "e", "a", "r", "c", "h">>
vGetContent == <<"g", "e", "t", "_", "c", "o", "n", "t", "e", "n", "t">>
vHtml   == <<"h", "t", "m", "l">>

\* s.replace('+', ' ')
PlusToSpace(s) == [i \in 1..Len(s) |-> IF s[i] = "+" THEN " " ELSE s[i]]

\* urllib.parse.parse_qsl on the pieces between '&': a piece without '=' or
\* with a blank value is dropped; name and value are percent-decoded
RECURSIVE ParseQsl(_)
ParseQsl(pieces) ==
    IF pieces = <<>> THEN <<>>
    ELSE LET nv == Head(pieces)
             eq == FindFirst(nv, "=")
         IN IF nv = <<>> \/ eq = 0 \/ eq = Len(nv) THEN ParseQsl(Tail(pieces))
            ELSE <<[name  |-> unquote(PlusToSpace(SubSeq(nv, 1, eq - 1))),
                    value |-> unquote(PlusToSpace(SubSeq(nv, eq + 1, Len(nv))))]>>
                    \o ParseQsl(Tail(pieces))

\* query_components = parse_qs(self.path.split('?')[-1]) if '?' in self.path else {}
query_components(path) ==
    IF Contains(path, "?") THEN ParseQsl(Split(SplitLast(path, "?"), "&")) ELSE <<>>

\* query_components.get(key, [default])[0]
QueryGet(path, key, default) ==
    LET q == query_components(path)
    IN IF \E i \in 1..Len(q) : q[i].name = key
       THEN q[CHOOSE i \in 1..Len(q) :
                 q[i].name = key /\ \A j \in 1..(i-1) : q[j].name # key].value
       ELSE default

IsDigit(c) == \E i \in 1..10 : Digits[i] = c

DigitValue(c) == (CHOOSE i \in 1..10 : Digits[i] = c) - 1

RECURSIVE DecimalValue(_)
DecimalValue(s) ==
    IF s = <<>> THEN 0
    ELSE 10 * DecimalValue(SubSeq(s, 1, Len(s) - 1)) + DigitValue(s[Len(s)])

\* int(s) accepts an optional sign and decimal digits
IsIntLiteral(s) ==
    LET body == IF s # <<>> /\ s[1] \in {"+", "-"} THEN Tail(s) ELSE s
    IN body # <<>> /\ \A i \in 1..Len(body) : IsDigit(body[i])

\* int(s), for a string int() accepts
IntValue(s) ==
    IF s[1] = "-" THEN 0 - DecimalValue(Tail(s))
    ELSE IF s[1] = "+" THEN DecimalValue(Tail(s))
    ELSE DecimalValue(s)

(***************************************************************************)
(* Requests                                                                *)
(***************************************************************************)

rDZip       == <<"/", "d", ".", "z", "i", "p">>
rDDotZip    == <<"/", "d", "/", ".", "z", "i", "p">>
rUpDZip     == <<"/", "d", "/", ".", ".", "/", "d", ".", "z", "i", "p">>
rDSearchZip == <<"/", "d", "/", "?", "s", "e", "a", "r", "c", "h", "=", "a", ".", "z", "i", "p">>
rXZip       == <<"/", "x", ".", "z", "i", "p">>
rXZipZip    == <<"/", "x", ".", "z", "i", "p", ".", "z", "i", "p">>
rXZipQuery  == <<"/", "x", ".", "z", "i", "p", "?", "a", "=", "1">>
rD          == <<"/", "d">>
rDSlash     == <<"/", "d", "/">>
rDSearchTag == <<"/", "d", "/", "?">> \o kSearch \o
                   <<"=", "%", "3", "C", "B", "%", "3", "e", "%", "2", "6", "%", "2", "2", "%", "2", "7">>
rMSearch == <<"/", "m", "/", "?">> \o kSearch \o <<"=", "%", "2", "6">>
rMSearchPage == rMSearch \o <<"&">> \o kPage \o <<"=", "2">>
rDPageX     == <<"/", "d", "/", "?", "p", "a", "g", "e", "=", "x">>
rATxt       == <<"/", "d", "/", "a", ".", "t", "x", "t">>
rATxtGet    == rATxt \o <<"?">> \o kAction \o <<"=">> \o vGetContent
rBBin       == <<"/", "d", "/", "s", "u", "b", "/", "b", ".", "b", "i", "n">>
rStaticJs   == <<"/", "s", "t", "a", "t", "i", "c", "/", "s", ".", "j", "s">>
rUpOut      == <<"/", ".", ".", "/", "o">>
rUpOutEnc   == <<"/", "d", "/", "%", "2", "e", "%", "2", "e", "%", "2", "f", ".", ".", "/", "o">>
rStaticUp   == <<"/", "s", "t", "a", "t", "i", "c", "/", ".", ".", "/", ".", ".", "/", "o">>

\* The request targets (self.path) the clients of the model send.
Requests ==
    {rDZip, rDDotZip, rUpDZip, rDSearchZip, rXZip, rXZipZip, rXZipQuery, rD, rDSlash,
     rDSearchTag, rMSearch, rMSearchPage, rDPageX, rATxt, rATxtGet, rBBin, rStaticJs, rUpOut, rUpOutEnc,
     rStaticUp}

\* Listing requests: pages inside, below and above the range, search terms
\* in either case, an empty directory, an unreadable one, one with a hidden
\* entry.
lM        == <<"/", "m", "/">>
lMPage2   == lM \o <<"?">> \o kPage \o <<"=", "2">>
lMPage0   == lM \o <<"?">> \o kPage \o <<"=", "0">>
lMPage7   == lM \o <<"?">> \o kPage \o <<"=", "7">>
lMPageNeg == lM \o <<"?">> \o kPage \o <<"=", "-", "1">>
lMSearchPage9 == rMSearch \o <<"&">> \o kPage \o <<"=", "9">>
lMSearchA == lM \o <<"?">> \o kSearch \o <<"=", "A">>
lT        == <<"/", "t", "/">>
lTSearch  == lT \o <<"?">> \o kSearch \o <<"=", "t">>
lTBlank   == lT \o <<"?">> \o kSearch \o <<"=">>
lU        == <<"/", "u", "/">>
lUPageX   == lU \o <<"?">> \o kPage \o <<"=", "x">>
lH        == <<"/", "h", "/">>
lEmpty    == <<"/", "x", ".", "z", "i", "p", "/", "?">> \o kPage \o <<"=", "3">>

ListRequests ==
    {lM, lMPage2, lMPage0, lMPage7, lMPageNeg, rMSearch, rMSearchPage, lMSearchPage9,
     lMSearchA, lT, lTSearch, lTBlank, lU, lUPageX, lH, lEmpty}

\* Requests for the text file /d/a.txt and the markdown file /k/r.md, with
\* and without the flags action=get_content and render=html, with several
\* values of chunk_size, with a query that ends in .zip, and with a
\* fragment that holds markup.
kChunkSize == <<"c", "h", "u", "n", "k", "_", "s", "i", "z", "e">>
tTxt        == <<"/", "d", "/", "a", ".", "t", "x", "t">>
tMd         == <<"/", "k", "/", "r", ".", "m", "d">>
qGet        == <<"?">> \o kAction \o <<"=">> \o vGetContent
qRender     == <<"&">> \o kRender \o <<"=">> \o vHtml
qChunk      == <<"&">> \o kChunkSize \o <<"=">>
tTxtGet     == tTxt \o qGet
tTxtRender  == tTxt \o qGet \o qRender
tMdGet      == tMd \o qGet
tMdRender   == tMd \o qGet \o qRender
tMdRenderOnly == tMd \o <<"?">> \o kRender \o <<"=">> \o vHtml
tTxtChunk1  == tTxtGet \o qChunk \o <<"1">>
tTxtChunkC  == tTxtGet \o qChunk \o <<"1", "6", "3", "8", "4">>
tTxtChunkZip == tTxtGet \o qChunk \o <<".", "z", "i", "p">>
tTxtZipQuery == tTxt \o <<"?", "x", "=", ".", "z", "i", "p">>
qMarkup     == <<"#", "\"", ">", "<", "s", "v", "g", ">">>
tTxtMarkup  == tTxt \o qMarkup
tMdMarkup   == tMd \o qMarkup

TextRequests ==
    {tTxt, tMd, tTxtGet, tTxtRender, tMdGet, tMdRender, tMdRenderOnly,
     tTxtChunk1, tTxtChunkC, tTxtChunkZip, tTxtZipQuery, tTxtMarkup, tMdMarkup}

(***************************************************************************)
(* State                                                                   *)
(***************************************************************************)

\* Requests served in a run, injected I/O failures.
MaxRequests == 2
MaxFaults   == 1

\* Two handler threads: two requests can be in do_GET at the same time.
Threads == {"t1", "t2"}

\* The value of lock when no thread holds it.
Free == "free"

VARIABLES
    fs,      \* the filesystem: path -> node
    lock,    \* zip_creation_lock: the thread holding it, or Free
    th,      \* per handler thread: its position in do_GET / create_zip and locals
    nreq,    \* requests accepted so far
    faults,  \* I/O failures injected so far
    dtree,       \* the regular files below the directory D: name -> st_size
    dmtime,      \* st_mtime of the directory D
    size_cache,  \* the lru_cache of _cached_get_directory_size, least recently used first
    sz,          \* per handler thread: its position in get_directory_size and locals
    hist,        \* history of get_directory_size: walks per st_mtime, last value returned
    stream,      \* per handler thread: its position in _serve_file_content and locals
    MARKDOWN_AVAILABLE,  \* whether "import markdown" succeeded
    boot,        \* start_serve: its position in the bind loop, the ports and their holders
    srv,         \* serve_forever: the connections and the request being handled
    pager,       \* the pagination controls last generated, with their arguments
    listing      \* generate_html_list: the entries of the page and the rows made of them

sizeVars == <<dtree, dmtime, size_cache, sz, hist>>

streamVars == <<stream>>

extVars == <<MARKDOWN_AVAILABLE, boot, srv, pager, listing>>

vars == <<fs, lock, th, nreq, faults, sizeVars, streamVars, extVars>>

NoNode ==
    [kind |-> "none", archive |-> FALSE, entries |-> {}, complete |-> TRUE, readable |-> TRUE]

\* The listing page of a response that is not a listing.
NoHtml ==
    [search_box |-> [ctx |-> "attr", s |-> <<>>], entries |-> <<>>, rows |-> <<>>,
     pagination |-> <<>>, page |-> 0, total_pages |-> 0]

\* A response: the status sent (0: none sent), what kind of body, for an
\* archive the file content that was copied to the client, and for a
\* listing the page that was rendered.
Response(status, kind, zip, html) ==
    [status |-> status, kind |-> kind, zip |-> zip, html |-> html]

NoResponse == Response(0, "pending", NoNode, NoHtml)

IdleThread ==
    [pc |-> "idle", req |-> <<>>, branch |-> "", dir |-> <<>>, zip |-> <<>>,
     tmp |-> <<>>, ret |-> FALSE, early |-> FALSE, failed |-> FALSE,
     unlinkFailed |-> FALSE, preexisting |-> FALSE, resp |-> NoResponse, acc |-> {}]

(***************************************************************************)
(* What do_GET computes from the request target alone                      *)
(***************************************************************************)

\* The values do_GET and the handlers it calls derive from self.path without
\* looking at the filesystem, computed once per request target.
RequestFacts(path) ==
    [static              |-> IsStaticRequest(path),
     zip                 |-> IsZipRequest(path),
     full_path           |-> translate_path(path),
     directory_full_path |-> translate_path(directory_rel_path(path)),
     text_like           |-> is_text_like(translate_path(path)),
     slash               |-> UrlPathEndsWithSlash(path),
     page                |-> QueryGet(path, kPage, <<"1">>),
     search              |-> Lower(QueryGet(path, kSearch, <<>>)),
     action              |-> QueryGet(path, kAction, <<>>),
     render              |-> QueryGet(path, kRender, <<>>)]

Facts == [r \in Requests \cup ListRequests \cup TextRequests |-> RequestFacts(r)]

\* The branch of do_GET a request takes on filesystem f.
Branch(f, path) ==
    IF Facts[path].static THEN "static"
    ELSE IF Facts[path].zip /\ is_file(f, Facts[path].full_path) THEN "zip_existing"
    ELSE IF Facts[path].zip
         THEN IF is_dir(f, Facts[path].directory_full_path)
              THEN "zip_build" ELSE "zip_notfound"
    ELSE IF Facts[path].text_like /\ is_file(f, Facts[path].full_path)
         THEN "text"
    ELSE "super"

(***************************************************************************)
(* The listing page                                                        *)
(***************************************************************************)

\* PAGE_SIZE
PAGE_SIZE == 20

Max(a, b) == IF a >= b THEN a ELSE b
Min(a, b) == IF a <= b THEN a ELSE b

\* str(n) for n >= 0
RECURSIVE IntToStr(_)
IntToStr(n) ==
    IF n < 10 THEN <<Digits[n + 1]>> ELSE IntToStr(n \div 10) \o <<Digits[(n % 10) + 1]>>

\* A part of the page that a request or a file name determines: the place
\* it is written to ("attr": inside a double-quoted attribute value,
\* "text": element content, "url": inside the query of a link target) and
\* the characters written there.
Piece(ctx, chars) == [ctx |-> ctx, s |-> chars]

\* The sorted sequence q with name x put in at its place by lower-case key.
RECURSIVE InsertByLower(_, _)
InsertByLower(x, q) ==
    IF q = <<>> THEN <<x>>
    ELSE IF StrLess(Lower(x), Lower(Head(q))) THEN <<x>> \o q
    ELSE <<Head(q)>> \o InsertByLower(x, Tail(q))

\* entries.sort(key=lambda a: a.lower()) on the names of set S.  (The
\* directories of the model hold no two names that differ in case only,
\* so the order iterdir yields them in does not show in the result.)
RECURSIVE SortByLower(_)
SortByLower(S) ==
    IF S = {} THEN <<>>
    ELSE LET x == CHOOSE y \in S : TRUE
         IN InsertByLower(x, SortByLower(S \ {x}))

\* A slice that always begins at the first entry.
SliceFromStart(q, start_idx, end_idx) == SubSeq(q, 1, Min(end_idx - start_idx, Len(q)))

\* entries[start_idx:end_idx]
Slice(q, start_idx, end_idx) == SubSeq(q, start_idx + 1, Min(end_idx, Len(q)))

\* os.path.splitext(name)[1]: from the last dot on, unless only dots precede it
splitext_ext(name) ==
    LET i == FindLast(name, ".")
    IN IF i = 0 \/ (\A j \in 1..(i - 1) : name[j] = ".") THEN <<>>
       ELSE SubSeq(name, i, Len(name))

\* generate_directory_entry: the link target, the display text and the
\* target of the archive link
generate_directory_entry(linkname, displayname) ==
    LET safe_linkname    == escape(linkname, TRUE)
        safe_displayname == escape(displayname, FALSE)
    IN <<Piece("attr", safe_linkname \o <<"/">>),
         Piece("text", safe_displayname \o <<"/">>),
         Piece("attr", safe_linkname \o ZipSuffix)>>

\* generate_file_entry: the link target, the display text, the target of
\* the download link and, for a previewable extension, of the preview link
generate_file_entry(linkname, displayname) ==
    LET safe_linkname    == escape(linkname, TRUE)
        safe_displayname == escape(displayname, FALSE)
    IN <<Piece("attr", safe_linkname),
         Piece("text", safe_displayname),
         Piece("attr", safe_linkname)>>
       \o (IF splitext_ext(Lower(displayname)) \in previewable_extensions
           THEN <<Piece("attr", safe_linkname)>> ELSE <<>>)

\* A pagination link to page p carrying the search term.
PageLink(label, p, search) ==
    [tag |-> "a", label |-> label, page |-> p, search |-> Piece("url", quote(search))]

\* A pagination element that is written as a link whatever it stands for.
PageSpanAsLink(label, p) == PageLink(label, p, <<>>)

\* A pagination element that is no link.
PageSpan(label, p) ==
    [tag |-> "span", label |-> label, page |-> p, search |-> Piece("url", <<>>)]

\* pagination_links of generate_html_list
pagination_links(page, total_pages, search) ==
    LET start_page == Max(1, page - 2)
        end_page   == Min(total_pages, page + 2)
    IN (IF page > 1 THEN <<PageLink("prev", page - 1, search)>>
        ELSE <<PageSpan("prev", 0)>>)
       \o (IF start_page > 1
           THEN <<PageLink("number", 1, search)>>
                \o (IF start_page > 2 THEN <<PageSpan("ellipsis", 0)>> ELSE <<>>)
           ELSE <<>>)
       \o [i \in 1..(end_page - start_page + 1) |->
              LET p == start_page + i - 1
              IN IF p = page THEN PageSpan("current", p)
                 ELSE PageLink("number", p, search)]
       \o (IF end_page < total_pages
           THEN (IF end_page < total_pages - 1 THEN <<PageSpan("ellipsis", 0)>> ELSE <<>>)
                \o <<PageLink("number", total_pages, search)>>
           ELSE <<>>)
       \o (IF page < total_pages THEN <<PageLink("next", page + 1, search)>>
           ELSE <<PageSpan("next", 0)>>)

\* generate_html_list: the value of the search box, one row per entry and
\* the pagination links (entries, page and total_pages are its arguments)
generate_html_list(f, path_obj, entries, page, total_pages, search) ==
    [search_box  |-> Piece("attr", escape(search, TRUE)),
     entries     |-> entries,
     rows        |-> [i \in 1..Len(entries) |->
                        IF is_dir(f, Append(path_obj, entries[i]))
                        THEN generate_directory_entry(entries[i], entries[i])
                        ELSE generate_file_entry(entries[i], entries[i])],
     pagination  |-> pagination_links(page, total_pages, search),
     page        |-> page,
     total_pages |-> total_pages]

(***************************************************************************)
(* Handlers that answer a request in one step                              *)
(***************************************************************************)

nIndexHtml == <<"i", "n", "d", "e", "x", ".", "h", "t", "m", "l">>
nIndexHtm  == <<"i", "n", "d", "e", "x", ".", "h", "t", "m">>

\* A filter that compares the search term with the names as they are.
FilterCaseSensitive(names, search) ==
    IF search # <<>> THEN {n \in names : IsSubstring(search, n)} ELSE names

\* if search: entries = [entry for entry in entries if search in entry.lower()]
FilterBySearch(names, search) ==
    IF search # <<>> THEN {n \in names : IsSubstring(search, Lower(n))} ELSE names

\* A clamp that has no upper limit.
ClampPageBelow(page, total_pages) == Max(1, page)

\* page = max(1, min(page, total_pages))
ClampPage(page, total_pages) == Max(1, Min(page, total_pages))

\* A directory that is enumerated although the process may not.
CanEnumerateAlways(f, d) == TRUE

\* entries = [p.name for p in path_obj.iterdir()] raises no OSError
CanEnumerate(f, d) == f[d].readable

\* list_directory: Not-Found when the directory cannot be enumerated,
\* otherwise the listing page of directory d, or no response at all when
\* int() raises on the page parameter (the exception leaves do_GET).
list_directory(f, d, path) ==
    IF ~CanEnumerate(f, d)
    THEN Response(404, "error", NoNode, NoHtml)
    ELSE IF ~IsIntLiteral(Facts[path].page)
    THEN Response(0, "exception", NoNode, NoHtml)
    ELSE LET search        == Facts[path].search
             names         == {PathName(p) : p \in iterdir(f, d)}
             entries       == SortByLower(FilterBySearch(names, search))
             total_entries == Len(entries)
             total_pages   == Max(1, (total_entries + PAGE_SIZE - 1) \div PAGE_SIZE)
             page          == ClampPage(IntValue(Facts[path].page), total_pages)
             start_idx     == (page - 1) * PAGE_SIZE
             end_idx       == start_idx + PAGE_SIZE
         IN Response(200, "listing", NoNode,
                     generate_html_list(f, d, Slice(entries, start_idx, end_idx),
                                        page, total_pages, search))

\* _serve_file_content_as_html: Server-Error without the markdown package,
\* Not-Found when the path is no file, otherwise the rendered markup.
serve_file_content_as_html(f, p) ==
    IF ~MARKDOWN_AVAILABLE THEN Response(500, "error", NoNode, NoHtml)
    ELSE IF ~is_file(f, p) THEN Response(404, "error", NoNode, NoHtml)
    ELSE Response(200, "rendered", NoNode, NoHtml)

\* CODE_VIEW_FRAME_TEMPLATE.format(filename=escape(file_path.name,
\* quote=False), raw_url=raw_url, ...): the file name as element content and
\* the raw URL as the value of an href attribute.
code_view_frame(filename, raw_url) ==
    [shell    |-> "code",
     filename |-> Piece("text", escape(filename, FALSE)),
     raw_url  |-> Piece("attr", raw_url)]

\* _generate_markdown_viewer_html(filename, raw_url)
generate_markdown_viewer_html(filename, raw_url) ==
    [shell    |-> "markdown",
     filename |-> Piece("text", escape(filename, FALSE)),
     raw_url  |-> Piece("attr", escape(raw_url, TRUE))]

\* handle_text_file: the content stream (action=get_content), the rendered
\* markup (render=html on a .md file with the markdown package present), or
\* the viewer shell, made for raw_url = self.path.split('?')[0].
handle_text_file(f, p, path) ==
    IF Facts[path].action = vGetContent
    THEN IF /\ Facts[path].render = vHtml
            /\ MARKDOWN_AVAILABLE
            /\ Lower(PathSuffix(p)) = sMd
         THEN serve_file_content_as_html(f, p)
         ELSE Response(200, "content", NoNode, NoHtml)
    ELSE LET raw_url == SplitHead(path, "?")
         IN Response(200, "viewer", NoNode,
                     IF Lower(PathSuffix(p)) = sMd /\ MARKDOWN_AVAILABLE
                     THEN generate_markdown_viewer_html(PathName(p), raw_url)
                     ELSE code_view_frame(PathName(p), raw_url))

\* super().do_GET(): SimpleHTTPRequestHandler.send_head and the copy of the
\* file.  A directory without a trailing slash is redirected, a directory
\* with an index file serves it, any other directory is listed by the
\* overridden list_directory; a path that is no readable file is Not-Found.
send_head(f, path) ==
    LET p == Facts[path].full_path
    IN IF is_dir(f, p)
       THEN IF ~Facts[path].slash THEN Response(301, "redirect", NoNode, NoHtml)
            ELSE IF is_file(f, Append(p, nIndexHtml)) \/ is_file(f, Append(p, nIndexHtm))
                 THEN Response(200, "file", NoNode, NoHtml)
            ELSE list_directory(f, p, path)
       ELSE IF Facts[path].slash \/ ~is_file(f, p)
            THEN Response(404, "error", NoNode, NoHtml)
       ELSE Response(200, "file", NoNode, NoHtml)

\* The paths send_head and list_directory stat, open or enumerate.
send_head_paths(f, path) ==
    LET p == Facts[path].full_path
    IN IF is_dir(f, p) /\ Facts[path].slash
       THEN {p, Append(p, nIndexHtml), Append(p, nIndexHtm)} \cup iterdir(f, p)
       ELSE {p}

\* The response of do_GET on a branch that does not build an archive.
Respond(f, path, branch) ==
    CASE branch \in {"static", "super"} -> send_head(f, path)
      [] branch = "zip_existing" ->
            Response(200, "zip", f[Facts[path].full_path], NoHtml)
      [] branch = "zip_notfound" -> Response(404, "error", NoNode, NoHtml)
      [] branch = "text" -> handle_text_file(f, Facts[path].full_path, path)

\* The filesystem paths do_GET touches on such a branch.
Accessed(f, path, branch) ==
    CASE branch \in {"static", "super"} ->
            send_head_paths(f, path)
            \cup (IF branch = "super" THEN {Facts[path].full_path} ELSE {})
      [] branch = "zip_existing" -> {Facts[path].full_path}
      [] branch = "zip_notfound" ->
            {Facts[path].full_path, Facts[path].directory_full_path}
      [] branch = "text" -> {Facts[path].full_path}

(***************************************************************************)
(* create_zip                                                              *)
(***************************************************************************)

\* A build that writes the archive at its final path.
temp_zip_path_in_place(zip_path) == zip_path

\* temp_zip_path = zip_path.with_suffix(zip_path.suffix + f".tmp_{os.getpid()}")
temp_zip_path(zip_path) ==
    with_suffix(zip_path, PathSuffix(zip_path) \o <<".", "t", "m", "p", "_">> \o Pid)

\* An acquire that does not wait.
CanAcquireAlways(l) == TRUE

\* threading.Lock.acquire returns only when the lock is free
CanAcquire(l) == l = Free

\* A check that never finds the archive.
ZipExistsNever(f, zip_name) == FALSE

\* os.path.exists(zip_name)
ZipExists(f, zip_name) == exists(f, zip_name)

\* The archive entries the walk writes: one per regular file under the
\* directory, named by its path relative to the directory.
ZipEntries(f, directory) == {relative_to(p, directory) : p \in rglob_files(f, directory)}

\* A cleanup that leaves the temporary file.
CleanupKeep(f, temp) == f

\* if temp_zip_path.exists(): temp_zip_path.unlink()
Cleanup(f, temp) == IF exists(f, temp) THEN RemoveNode(f, temp) ELSE f

(***************************************************************************)
(* The directory size cache                                                *)
(***************************************************************************)

\* The directory D whose size a listing shows: str(Path(path).resolve()).
SizedDir == <<nSrv, nD>>

\* The regular files that can be below D, at any depth, with fp.stat().st_size.
SizedFiles == {"a", "sub/b", "c", "empty"}

\* Files of the subdirectory sub of D that come and go while D's own
\* st_mtime stays as it is: sub/n, and sub/b after it has grown.
NestedFiles == {"sub/n", "sub/b grown"}

st_size ==
    [n \in SizedFiles \cup NestedFiles |->
        CASE n = "a" -> 3
          [] n = "sub/b" -> 5
          [] n = "c" -> 2
          [] n = "sub/n" -> 7
          [] n = "sub/b grown" -> 9
          [] OTHER -> 0]

\* The trees a change inside sub makes of a tree: sub/n is added or
\* removed, or sub/b is resized.
NestedChanges(tree) ==
    {IF "sub/n" \in tree THEN tree \ {"sub/n"} ELSE tree \cup {"sub/n"}}
    \cup (IF "sub/b" \in tree
          THEN {(tree \ {"sub/b"}) \cup {"sub/b grown"}} ELSE {})
    \cup (IF "sub/b grown" \in tree
          THEN {(tree \ {"sub/b grown"}) \cup {"sub/b"}} ELSE {})

\* The files below D when the server starts, and those added later.
StartFiles == {"a", "sub/b"}

AddedFiles == SizedFiles \ StartFiles

RECURSIVE SumSizes(_)
SumSizes(S) ==
    IF S = {} THEN 0
    ELSE LET n == CHOOSE x \in S : TRUE IN st_size[n] + SumSizes(S \ {n})

\* A wrong total: the number of files instead of their sizes.
WalkTotalCount(files) == Cardinality(files)

\* for fp in path_obj.rglob('*'): if fp.is_file(): total_size += fp.stat().st_size
WalkTotal(files) == SumSizes(files)

\* @lru_cache(maxsize=128)
LRU_MAXSIZE == 128

\* A cache keyed by the directory alone.
CacheKeyPathOnly(self, path, mtime) == <<path>>

\* A cache keyed by the directory and its st_mtime, shared by all handlers.
CacheKeyPathMtime(self, path, mtime) == <<path, mtime>>

\* The key lru_cache makes of the arguments of the call
\* self._cached_get_directory_size(cache_key_path, mtime): the handler
\* instance, which is hashed and compared by identity, the path and the mtime.
CacheKey(self, path, mtime) == <<self, path, mtime>>

\* The position in the cache of the entry with this key, 0 when there is none.
CacheIndex(cache, key) ==
    IF \E i \in 1..Len(cache) : cache[i].key = key
    THEN CHOOSE i \in 1..Len(cache) : cache[i].key = key
    ELSE 0

\* A hit moves the entry to the most recently used end.
CacheTouch(cache, i) ==
    Append(SubSeq(cache, 1, i - 1) \o SubSeq(cache, i + 1, Len(cache)), cache[i])

\* A store that makes room by dropping the entry stored last.
CachePutDropNewest(cache, entry) ==
    IF Len(cache) >= LRU_MAXSIZE
    THEN Append(SubSeq(cache, 1, Len(cache) - 1), entry)
    ELSE Append(cache, entry)

\* A miss stores the result; a full cache drops its least recently used entry.
CachePut(cache, entry) ==
    LET c == Append(cache, entry)
    IN IF Len(c) > LRU_MAXSIZE THEN Tail(c) ELSE c

\* A handler thread outside get_directory_size.  mtime is the st_mtime read
\* at the start of the call, stored the st_mtime under which a total returned
\* from the cache was stored (-1: not from the cache), stale whether the cache
\* held, at the start of the call, a total of D stored under another st_mtime.
\* prev, adds and grown describe the call before: the value it returned (-1:
\* there was none) and the number and the bytes of the files added to D since.
\* known tells whether a walk under the st_mtime read had returned before the
\* call began.
IdleSize ==
    [pc |-> "idle", self |-> 0, mtime |-> 0, ret |-> 0, walked |-> FALSE,
     failed |-> FALSE, stored |-> -1, stale |-> FALSE,
     prev |-> -1, adds |-> 0, grown |-> 0, known |-> FALSE, shown |-> -1]

\* Listings served one after the other in a run that fills the cache.
MaxListings == 130

\* A call of get_directory_size that has not begun.  Of a call that has,
\* mtime and tree are D's st_mtime and files when it began, during the calls
\* that were between their stat and their return at that time, until D's
\* st_mtime and after D's files when it returned, and ret the value it
\* returned (-1: none yet).
NoCall ==
    [mtime |-> -1, tree |-> {}, during |-> {}, until |-> -1, after |-> {},
     ret |-> -1, walked |-> FALSE, failed |-> FALSE]

InitialHist ==
    [walks |-> [m \in 0..Cardinality(AddedFiles) |-> 0],
     last |-> -1, adds |-> 0, grown |-> 0,
     calls |-> [c \in 1..MaxRequests |-> NoCall]]

(***************************************************************************)
(* Streaming a file's content                                              *)
(***************************************************************************)

FILE_CHUNK_SIZE == 16 * 1024

\* The sizes in bytes of the files that are streamed.
StreamSizes ==
    {0, 1, FILE_CHUNK_SIZE - 1, FILE_CHUNK_SIZE, FILE_CHUNK_SIZE + 1, 10 * FILE_CHUNK_SIZE}

\* A read that asks for everything that is left.
ReadAll(pos, size) == size - pos

\* The number of bytes f.read(FILE_CHUNK_SIZE) returns at position pos of a
\* file of size bytes: FILE_CHUNK_SIZE, or what is left when that is less.
ReadLen(pos, size) == Min(FILE_CHUNK_SIZE, size - pos)

\* A handler thread outside _serve_file_content.  A byte of the file is known
\* by its offset; a chunk written to wfile is the offset of its first byte and
\* its length.  size is -1 when file_path is not a file.  kind tells what is
\* sent: "content" (_serve_file_content), "zip_existing" or "zip_dynamic"
\* (the two archive branches of do_GET).  open tells whether the file handle
\* is open; exc is the exception the transfer raised ("" when none did), log
\* the level at which it was logged, error_sent the status of the error
\* response the handler then tried to send (0: none), and raised whether an
\* exception left do_GET.  responses counts the status lines, each with its
\* header block, written to the connection.
IdleStream ==
    [pc |-> "idle", size |-> 0, pos |-> 0, status |-> 0, sent |-> <<>>,
     kind |-> "content", open |-> FALSE, exc |-> "", log |-> "",
     error_sent |-> 0, raised |-> FALSE, responses |-> 0]

\* What a write to a connection the client has left raises.
DisconnectErrors == {"BrokenPipeError", "ConnectionResetError"}

\* The except clauses around the transfer, in the order they are written.
ExceptClauses(kind) ==
    CASE kind = "content"      -> <<"IOError", "BrokenPipeError", "Exception">>
      [] kind = "zip_existing" -> <<"IOError", "BrokenPipeError">>
      [] kind = "zip_dynamic"  -> <<"BrokenPipeError", "Exception">>

\* isinstance(exc, clause): IOError is OSError, of which both errors of a
\* lost connection are subclasses.
Catches(clause, exc) ==
    \/ clause = exc
    \/ clause \in {"IOError", "Exception"}

\* The first except clause that catches exc.
CaughtBy(kind, exc) ==
    LET cl == ExceptClauses(kind)
    IN cl[CHOOSE i \in 1..Len(cl) :
              Catches(cl[i], exc) /\ \A j \in 1..(i - 1) : ~Catches(cl[j], exc)]

\* What the clause that catches a lost connection does: the level of its
\* log record, the status it passes to send_error (0: it does not call it),
\* and whether that call is inside a try of its own.  send_error writes to
\* the lost connection and raises again.
OnLostConnection(kind, exc) ==
    LET clause == CaughtBy(kind, exc)
    IN CASE clause = "BrokenPipeError" ->
              [log |-> "warning", error_sent |-> 0, raised |-> FALSE]
         [] clause = "IOError" /\ kind = "content" ->
              [log |-> "error", error_sent |-> 404, raised |-> FALSE]
         [] clause = "IOError" /\ kind = "zip_existing" ->
              [log |-> "error", error_sent |-> 404, raised |-> TRUE]
         [] clause = "Exception" /\ kind = "content" ->
              [log |-> "error", error_sent |-> 500, raised |-> FALSE]
         [] OTHER ->
              [log |-> "error", error_sent |-> 500, raised |-> TRUE]

(***************************************************************************)
(* Starting the server                                                     *)
(***************************************************************************)

\* if port > 65535: sys.exit(1)
MaxPort == 65535

\* The values of initial_port start_serve is called with.
InitialPorts == {8000, MaxPort - 1}

\* How many ports from initial_port on the environment of a run describes.
PortSpan == 3

PortsFrom(p) == p..Min(p + PortSpan - 1, MaxPort)

\* A port is "free", "held" by a process that can be terminated, or
\* "protected": held by a process psutil cannot inspect (AccessDenied) or by
\* pid 1.
PortStates == {"free", "held", "protected"}

\* start_serve before it is called.  holders tells who holds each port,
\* port is the local variable port, last_failed the port whose bind has just
\* failed with errno 98 (0: no bind has failed since the last termination
\* attempt), binds the ports bind was tried on, in order, and kills the
\* processes terminated: the port each held and the value of last_failed at
\* that time.
BootStart ==
    [pc |-> "start", initial_port |-> 0, port |-> 0, holders |-> <<>>,
     last_failed |-> 0, binds |-> <<>>, kills |-> <<>>]

\* Who holds a port: the ports the environment does not describe are free.
HolderOf(b, port) == IF port \in DOMAIN b.holders THEN b.holders[port] ELSE "free"

\* kill_process_on_port(port): the first process with a connection on the
\* port is terminated, unless it cannot be inspected or is pid 1.
kill_process_on_port(b, port) ==
    IF HolderOf(b, port) = "held"
    THEN [b EXCEPT !.holders[port] = "free",
                   !.kills = Append(@, [port |-> port, last_failed |-> b.last_failed])]
    ELSE b

(***************************************************************************)
(* The server loop                                                         *)
(***************************************************************************)

\* Connections clients open in a run.
MaxConns == 4

Conns == 1..MaxConns

\* serve_forever of socketserver.TCPServer before the first connection:
\* queue holds the connections that wait to be accepted, in the order they
\* arrived; handling is the connection whose handler runs (0: none), in the
\* thread of serve_forever itself; blocked tells whether that handler waits
\* on a socket write, on the filesystem or inside create_zip; served holds
\* the connections whose requests were answered.
ServerStart == [queue |-> <<>>, handling |-> 0, blocked |-> FALSE, served |-> {}]

\* TCPServer.process_request calls finish_request in the calling thread, so
\* serve_forever takes the next connection when the handler has returned.
CanProcess(server) == server.handling = 0

(***************************************************************************)
(* The pagination controls                                                 *)
(***************************************************************************)

\* The largest number of pages a listing of the model has.
MaxPages == 9

\* Search terms as list_directory passes them to generate_html_list: decoded
\* by parse_qs and lower-cased.
PagerTerms ==
    {<<>>, <<"a">>, <<"a", " ", "b">>, <<"&">>, <<"+">>, <<"%">>, <<"a", "=", "b">>, <<"%", "2", "6">>, <<";">>, <<"?", "#">>,
     <<".", "z", "i", "p">>}

\* No listing has been generated.  listed tells whether the last request
\* was answered by list_directory, followed whether it was made through a
\* pagination link, origin and target being the search term of the page
\* that link was on and the page it named.
NoPager ==
    [page |-> 0, total_pages |-> 0, search |-> <<>>, links |-> <<>>,
     listed |-> FALSE, followed |-> FALSE, origin |-> <<>>, target |-> 0]

\* The directory whose listing the pagination controls belong to.
PagedDir == <<"/", "m", "/">>

\* do_GET hands a request for a directory to list_directory (through
\* SimpleHTTPRequestHandler.do_GET) when it has taken none of the branches
\* before: the target is not under the static directory and does not end
\* in .zip.
ReachesListing(path) == ~IsStaticRequest(path) /\ ~IsZipRequest(path)

\* The href of a pagination link: f'?page={p}&search={quote(search)}'
Href(link) ==
    <<"?">> \o kPage \o <<"=">> \o IntToStr(link.page)
        \o <<"&">> \o kSearch \o <<"=">> \o link.search.s

(***************************************************************************)
(* The rows of a listing                                                   *)
(***************************************************************************)

\* The most entries a page of the model has.
MaxRows == 4

\* What an entry of the page is when its row is made: a regular file, a
\* directory, or a name fullname.stat() fails on (removed since iterdir, or
\* a symbolic link to nothing), for which fullname.is_dir() is False.
EntryKinds == {"file", "dir", "gone"}

\* The pages: every sequence of one to MaxRows entries.
Pages == UNION {[1..n -> EntryKinds] : n \in 1..MaxRows}

\* fullname.stat() of the entry at position i of the page, each entry with
\* a size and a modification time of its own.
StatOf(i) == [st_size |-> 1000 * i, st_mtime |-> i]

\* get_directory_size of the directory at position i.
FolderSizeOf(i) == 1000 * i + 500

\* The local variable stat_result before its first assignment.
Unbound == [st_size |-> -1, st_mtime |-> -1]

\* What a row shows for "N/A".
NA == -1

\* The loop of generate_html_list from entry i on, stat_result being the
\* value the local variable has then: the rows made, and whether an
\* exception left the loop.  A failed stat() leaves stat_result as it was;
\* the else branch reads stat_result.st_size, which raises UnboundLocalError
\* when nothing was assigned yet.
RECURSIVE RenderRows(_, _, _)
RenderRows(entries, i, stat_result) ==
    IF i > Len(entries) THEN [rows |-> <<>>, raised |-> FALSE]
    ELSE LET stat_now == IF entries[i] = "gone" THEN stat_result ELSE StatOf(i)
             mod_time == IF entries[i] = "gone" THEN NA ELSE StatOf(i).st_mtime
         IN IF entries[i] = "dir"
            THEN LET rest == RenderRows(entries, i + 1, stat_now)
                 IN [rows |-> <<[entry |-> i, size |-> FolderSizeOf(i), mod_time |-> mod_time]>>
                                \o rest.rows,
                     raised |-> rest.raised]
            ELSE IF stat_now = Unbound
            THEN [rows |-> <<>>, raised |-> TRUE]
            ELSE LET rest == RenderRows(entries, i + 1, stat_now)
                 IN [rows |-> <<[entry |-> i, size |-> stat_now.st_size, mod_time |-> mod_time]>>
                                \o rest.rows,
                     raised |-> rest.raised]

\* No listing has been asked for.
NoListing == [entries |-> <<>>, rows |-> <<>>, status |-> 0]

(***************************************************************************)
(* Actions                                                                 *)
(***************************************************************************)

\* The state when serve_forever begins, but for the outcome of "import
\* markdown".
InitCore ==
    /\ fs = InitialFs
    /\ lock = Free
    /\ th = [t \in Threads |-> IdleThread]
    /\ nreq = 0
    /\ faults = 0
    /\ dtree = StartFiles
    /\ dmtime = 0
    /\ size_cache = <<>>
    /\ sz = [t \in Threads |-> IdleSize]
    /\ hist = InitialHist
    /\ stream = [t \in Threads |-> IdleStream]
    /\ boot = BootStart
    /\ srv = ServerStart
    /\ pager = NoPager
    /\ listing = NoListing

\* The markdown package is installed.
Init ==
    /\ InitCore
    /\ MARKDOWN_AVAILABLE = TRUE

\* The markdown package is installed or it is not.
InitText ==
    /\ InitCore
    /\ MARKDOWN_AVAILABLE \in BOOLEAN

\* do_GET on a request that is answered without building an archive.
DoGet(t, r) ==
    /\ th[t].pc = "idle"
    /\ nreq < MaxRequests
    /\ Branch(fs, r) # "zip_build"
    /\ LET branch == Branch(fs, r)
       IN th' = [th EXCEPT ![t] =
                   [IdleThread EXCEPT !.req = r,
                                      !.branch = branch,
                                      !.resp = Respond(fs, r, branch),
                                      !.acc = Accessed(fs, r, branch)]]
    /\ nreq' = nreq + 1
    /\ UNCHANGED <<fs, lock, faults>>
    /\ UNCHANGED <<sizeVars, streamVars, extVars>>

\* do_GET up to the call of create_zip: the request ends in .zip, no file is
\* at the resolved path, and the request without its last four characters
\* resolves to a directory.
DoGetZip(t, r) ==
    /\ th[t].pc = "idle"
    /\ nreq < MaxRequests
    /\ Branch(fs, r) = "zip_build"
    /\ th' = [th EXCEPT ![t] =
                [IdleThread EXCEPT !.pc = "lock",
                                   !.req = r,
                                   !.branch = "zip_build",
                                   !.dir = Facts[r].directory_full_path,
                                   !.zip = Facts[r].full_path,
                                   !.preexisting = exists(fs, Facts[r].full_path),
                                   !.acc = {Facts[r].full_path,
                                            Facts[r].directory_full_path}]]
    /\ nreq' = nreq + 1
    /\ UNCHANGED <<fs, lock, faults>>
    /\ UNCHANGED <<sizeVars, streamVars, extVars>>

\* with self.zip_creation_lock:
Acquire(t) ==
    /\ th[t].pc = "lock"
    /\ CanAcquire(lock)
    /\ lock' = t
    /\ th' = [th EXCEPT ![t].pc = "check"]
    /\ UNCHANGED <<fs, nreq, faults>>
    /\ UNCHANGED <<sizeVars, streamVars, extVars>>

\* if os.path.exists(zip_name): return True
CheckExists(t) ==
    /\ th[t].pc = "check"
    /\ ZipExists(fs, th[t].zip)
    /\ th' = [th EXCEPT ![t].pc = "send", ![t].ret = TRUE, ![t].early = TRUE]
    /\ lock' = Free
    /\ UNCHANGED <<fs, nreq, faults>>
    /\ UNCHANGED <<sizeVars, streamVars, extVars>>

\* The archive is not there: the build starts.
CheckAbsent(t) ==
    /\ th[t].pc = "check"
    /\ ~ZipExists(fs, th[t].zip)
    /\ th' = [th EXCEPT ![t].pc = "open", ![t].tmp = temp_zip_path(th[t].zip)]
    /\ UNCHANGED <<fs, lock, nreq, faults>>
    /\ UNCHANGED <<sizeVars, streamVars, extVars>>

\* ZipFile(temp_zip_path, 'w'): the temporary file is created, empty.
OpenZip(t) ==
    /\ th[t].pc = "open"
    /\ fs' = WriteNode(fs, th[t].tmp, ZipNode({}, FALSE))
    /\ th' = [th EXCEPT ![t].pc = "walk", ![t].acc = @ \cup {th[t].tmp}]
    /\ UNCHANGED <<lock, nreq, faults>>
    /\ UNCHANGED <<sizeVars, streamVars, extVars>>

\* The loop over directory_path.rglob('*'): every regular file under the
\* directory is written to the archive under its relative path.
WalkZip(t) ==
    /\ th[t].pc = "walk"
    /\ fs' = WriteNode(fs, th[t].tmp, ZipNode(ZipEntries(fs, th[t].dir), FALSE))
    /\ th' = [th EXCEPT ![t].pc = "close",
                         ![t].acc = @ \cup {th[t].dir} \cup rglob_files(fs, th[t].dir)]
    /\ UNCHANGED <<lock, nreq, faults>>
    /\ UNCHANGED <<sizeVars, streamVars, extVars>>

\* The loop reaches the temporary file itself, which lies under the
\* directory and already holds the bytes of the files written before it:
\* zipf.write copies it to its own end, and every block read is a block
\* appended, so the copy does not reach the end of the file. In which
\* order rglob yields the files is the operating system's choice.
WalkZipCopiesItself(t) ==
    /\ th[t].pc = "walk"
    /\ IsUnder(th[t].tmp, th[t].dir)
    /\ \E written \in SUBSET (rglob_files(fs, th[t].dir) \ {th[t].tmp}) :
            /\ written # {}
            /\ fs' = WriteNode(fs, th[t].tmp,
                        ZipNode({relative_to(p, th[t].dir) : p \in written}, FALSE))
            /\ th' = [th EXCEPT ![t].pc = "copy",
                                 ![t].acc = @ \cup {th[t].dir} \cup written]
    /\ UNCHANGED <<lock, nreq, faults>>
    /\ UNCHANGED <<sizeVars, streamVars, extVars>>

\* The end of the with ZipFile block: the archive is closed, complete.
CloseZip(t) ==
    /\ th[t].pc = "close"
    /\ fs' = WriteNode(fs, th[t].tmp, [fs[th[t].tmp] EXCEPT !.complete = TRUE])
    /\ th' = [th EXCEPT ![t].pc = "move"]
    /\ UNCHANGED <<lock, nreq, faults>>
    /\ UNCHANGED <<sizeVars, streamVars, extVars>>

\* shutil.move(temp_zip_path, zip_path), a rename within one directory;
\* return True releases the lock.
MoveZip(t) ==
    /\ th[t].pc = "move"
    /\ fs' = RenameNode(fs, th[t].tmp, th[t].zip)
    /\ th' = [th EXCEPT ![t].pc = "send", ![t].ret = TRUE,
                         ![t].acc = @ \cup {th[t].zip}]
    /\ lock' = Free
    /\ UNCHANGED <<nreq, faults>>
    /\ UNCHANGED <<sizeVars, streamVars, extVars>>

\* Opening the temporary file, writing an entry, closing the archive or the
\* rename raises (the device is full, for one): control passes to the
\* except block.
BuildFails(t) ==
    /\ th[t].pc \in {"open", "walk", "copy", "close", "move"}
    /\ faults < MaxFaults
    /\ faults' = faults + 1
    /\ th' = [th EXCEPT ![t].pc = "except"]
    /\ UNCHANGED <<fs, lock, nreq>>
    /\ UNCHANGED <<sizeVars, streamVars, extVars>>

\* except Exception: the temporary file is removed if it exists; return
\* False releases the lock.
ExceptCleanup(t) ==
    /\ th[t].pc = "except"
    /\ fs' = Cleanup(fs, th[t].tmp)
    /\ th' = [th EXCEPT ![t].pc = "send", ![t].ret = FALSE, ![t].failed = TRUE]
    /\ lock' = Free
    /\ UNCHANGED <<nreq, faults>>
    /\ UNCHANGED <<sizeVars, streamVars, extVars>>

\* except Exception as cleanup_error: unlink raises too; the error is
\* logged, the temporary file stays, return False releases the lock.
ExceptCleanupFails(t) ==
    /\ th[t].pc = "except"
    /\ exists(fs, th[t].tmp)
    /\ th' = [th EXCEPT ![t].pc = "send", ![t].ret = FALSE, ![t].failed = TRUE,
                         ![t].unlinkFailed = TRUE]
    /\ lock' = Free
    /\ UNCHANGED <<fs, nreq, faults>>
    /\ UNCHANGED <<sizeVars, streamVars, extVars>>

\* do_GET after create_zip returned: the archive is sent, or a server error.
SendZip(t) ==
    /\ th[t].pc = "send"
    /\ th' = [th EXCEPT ![t].pc = "idle",
                         ![t].resp =
                            IF th[t].ret /\ is_file(fs, th[t].zip)
                            THEN Response(200, "zip", fs[th[t].zip], NoHtml)
                            ELSE Response(500, "error", NoNode, NoHtml)]
    /\ UNCHANGED <<fs, lock, nreq, faults>>
    /\ UNCHANGED <<sizeVars, streamVars, extVars>>

\* Another process adds a file to the shared directory d.
EnvAddFile ==
    /\ ~exists(fs, <<nSrv, nD, nCTxt>>)
    /\ fs' = WriteNode(fs, <<nSrv, nD, nCTxt>>, FileNode)
    /\ UNCHANGED <<lock, th, nreq, faults>>
    /\ UNCHANGED <<sizeVars, streamVars, extVars>>

\* Another process removes a file from the directory m.
EnvRemoveFile(n) ==
    /\ is_file(fs, <<nSrv, nMany, n>>)
    /\ fs' = RemoveNode(fs, <<nSrv, nMany, n>>)
    /\ UNCHANGED <<lock, th, nreq, faults>>
    /\ UNCHANGED <<sizeVars, streamVars, extVars>>

\* generate_html_list reaches the row of D and calls get_directory_size: the
\* handler instance made for the request reads D's st_mtime and looks the key
\* up in the cache.  A hit returns the cached total, a miss goes on to walk.
SizeStat(t) ==
    /\ sz[t].pc = "idle"
    /\ nreq < MaxRequests
    /\ LET self == nreq + 1
           i == CacheIndex(size_cache, CacheKey(self, SizedDir, dmtime))
           call == [IdleSize EXCEPT
                       !.self = self,
                       !.mtime = dmtime,
                       !.stale = \E j \in 1..Len(size_cache) : size_cache[j].mtime # dmtime,
                       !.prev = hist.last,
                       !.adds = hist.adds,
                       !.grown = hist.grown,
                       !.known = hist.walks[dmtime] > 0]
           begun == [NoCall EXCEPT
                       !.mtime = dmtime,
                       !.tree = dtree,
                       !.during = {sz[u].self : u \in {v \in Threads : sz[v].pc = "walk"}}]
       IN IF i # 0
          THEN /\ sz' = [sz EXCEPT ![t] = [call EXCEPT !.pc = "done",
                                                      !.ret = size_cache[i].value,
                                                      !.stored = size_cache[i].mtime]]
               /\ size_cache' = CacheTouch(size_cache, i)
               /\ hist' = [hist EXCEPT !.last = size_cache[i].value, !.adds = 0, !.grown = 0,
                                       !.calls[self] = [begun EXCEPT !.until = dmtime,
                                                                     !.after = dtree,
                                                                     !.ret = size_cache[i].value]]
          ELSE /\ sz' = [sz EXCEPT ![t] = [call EXCEPT !.pc = "walk"]]
               /\ hist' = [hist EXCEPT !.calls[self] = begun]
               /\ UNCHANGED size_cache
    /\ nreq' = nreq + 1
    /\ UNCHANGED <<fs, lock, th, faults, dtree, dmtime, streamVars, extVars>>

\* Path(path).stat() raises OSError: get_directory_size returns 0.
SizeStatFails(t) ==
    /\ sz[t].pc = "idle"
    /\ nreq < MaxRequests
    /\ faults < MaxFaults
    /\ sz' = [sz EXCEPT ![t] = [IdleSize EXCEPT !.pc = "done",
                                                !.self = nreq + 1,
                                                !.failed = TRUE,
                                                !.prev = hist.last,
                                                !.adds = hist.adds,
                                                !.grown = hist.grown]]
    /\ hist' = [hist EXCEPT !.last = 0, !.adds = 0, !.grown = 0,
                            !.calls[nreq + 1] = [NoCall EXCEPT !.mtime = dmtime,
                                                               !.tree = dtree,
                                                               !.until = dmtime,
                                                               !.after = dtree,
                                                               !.ret = 0,
                                                               !.failed = TRUE]]
    /\ nreq' = nreq + 1
    /\ faults' = faults + 1
    /\ UNCHANGED <<fs, lock, th, dtree, dmtime, size_cache, streamVars, extVars>>

\* What _cached_get_directory_size does with the total it returns: lru_cache
\* stores it under the key of the call, and the call returns it.
SizeReturn(t, total, failed) ==
    LET key == CacheKey(sz[t].self, SizedDir, sz[t].mtime)
    IN /\ sz' = [sz EXCEPT ![t].pc = "done",
                           ![t].ret = total,
                           ![t].walked = TRUE,
                           ![t].failed = failed]
       /\ size_cache' = IF CacheIndex(size_cache, key) # 0 THEN size_cache
                        ELSE CachePut(size_cache,
                                      [key |-> key, mtime |-> sz[t].mtime, value |-> total])
       /\ hist' = [hist EXCEPT !.walks[sz[t].mtime] = @ + 1,
                               !.last = total, !.adds = 0, !.grown = 0,
                               !.calls[sz[t].self] = [@ EXCEPT !.until = dmtime,
                                                               !.after = dtree,
                                                               !.ret = total,
                                                               !.walked = TRUE,
                                                               !.failed = failed]]

\* _cached_get_directory_size walks D and sums the sizes of its files.
SizeWalk(t) ==
    /\ sz[t].pc = "walk"
    /\ SizeReturn(t, WalkTotal(dtree), FALSE)
    /\ UNCHANGED <<fs, lock, th, nreq, faults, dtree, dmtime, streamVars, extVars>>

\* The walk raises OSError after the files of visited have been counted: the
\* except clause logs, and the function returns total_size as it stands.
SizeWalkFails(t) ==
    /\ sz[t].pc = "walk"
    /\ faults < MaxFaults
    /\ \E visited \in SUBSET dtree : SizeReturn(t, WalkTotal(visited), TRUE)
    /\ faults' = faults + 1
    /\ UNCHANGED <<fs, lock, th, nreq, dtree, dmtime, streamVars, extVars>>

\* generate_html_list puts the size into the row of D and the listing is sent.
SizeRender(t) ==
    /\ sz[t].pc = "done"
    /\ sz' = [sz EXCEPT ![t] = [IdleSize EXCEPT !.shown = sz[t].ret]]
    /\ UNCHANGED <<fs, lock, th, nreq, faults, dtree, dmtime, size_cache, hist, streamVars, extVars>>

\* Another process adds a file directly to D, which changes D's st_mtime.
EnvAddSized(n) ==
    /\ n \notin dtree
    /\ dtree' = dtree \cup {n}
    /\ dmtime' = dmtime + 1
    /\ hist' = [hist EXCEPT !.adds = @ + 1, !.grown = @ + st_size[n]]
    /\ UNCHANGED <<fs, lock, th, nreq, faults, size_cache, sz, streamVars, extVars>>

\* A listing served from start to end while no other handler runs, as
\* serve_forever runs them: get_directory_size reads D's st_mtime, the key
\* of the call is looked up, and on a miss D is walked and the total stored.
ListSerially ==
    /\ \A t \in Threads : sz[t].pc = "idle"
    /\ nreq < MaxListings
    /\ LET self == nreq + 1
           key == CacheKey(self, SizedDir, dmtime)
           i == CacheIndex(size_cache, key)
       IN size_cache' =
             IF i # 0 THEN CacheTouch(size_cache, i)
             ELSE CachePut(size_cache,
                           [key |-> key, mtime |-> dmtime, value |-> WalkTotal(dtree)])
    /\ nreq' = nreq + 1
    /\ UNCHANGED <<fs, lock, th, faults, dtree, dmtime, sz, hist, streamVars, extVars>>

\* Another process adds, removes or resizes a file inside the subdirectory
\* sub of D: D's own st_mtime does not change.
EnvChangeNested(tree) ==
    /\ tree \in NestedChanges(dtree)
    /\ dtree' = tree
    /\ UNCHANGED <<fs, lock, th, nreq, faults, dmtime, size_cache, sz, hist, streamVars, extVars>>

\* _serve_file_content on a regular file: the status line and the headers
\* are sent and the file is opened for reading.
StreamOpen(t, size) ==
    /\ stream[t].pc = "idle"
    /\ nreq < MaxRequests
    /\ stream' = [stream EXCEPT ![t] = [IdleStream EXCEPT !.pc = "loop",
                                                        !.size = size,
                                                        !.status = 200,
                                                        !.responses = 1,
                                                        !.open = TRUE]]
    /\ nreq' = nreq + 1
    /\ UNCHANGED <<fs, lock, th, faults, sizeVars, extVars>>

\* _serve_file_content on a path that is not a file: send_error(404).
StreamNotFound(t) ==
    /\ stream[t].pc = "idle"
    /\ nreq < MaxRequests
    /\ stream' = [stream EXCEPT ![t] = [IdleStream EXCEPT !.pc = "done",
                                                        !.size = -1,
                                                        !.status = 404,
                                                        !.responses = 1]]
    /\ nreq' = nreq + 1
    /\ UNCHANGED <<fs, lock, th, faults, sizeVars, extVars>>

\* One turn of the loop: chunk = f.read(FILE_CHUNK_SIZE); an empty chunk
\* leaves the loop, any other is written to wfile and flushed.
StreamChunk(t) ==
    /\ stream[t].pc = "loop"
    /\ LET me == stream[t]
           n == ReadLen(me.pos, me.size)
       IN stream' = [stream EXCEPT ![t] =
                       IF n = 0
                       THEN [me EXCEPT !.pc = "done", !.open = FALSE]
                       ELSE [me EXCEPT !.pos = me.pos + n,
                                       !.sent = Append(me.sent, [off |-> me.pos, len |-> n])]]
    /\ UNCHANGED <<fs, lock, th, nreq, faults, sizeVars, extVars>>

\* do_GET sending an archive, one that was found at the path or one that
\* create_zip has just built: the status line and the headers are sent and
\* the file is opened for shutil.copyfileobj.
ZipOpen(t, kind, size) ==
    /\ stream[t].pc = "idle"
    /\ nreq < MaxRequests
    /\ stream' = [stream EXCEPT ![t] = [IdleStream EXCEPT !.pc = "copy",
                                                        !.kind = kind,
                                                        !.size = size,
                                                        !.status = 200,
                                                        !.responses = 1,
                                                        !.open = TRUE]]
    /\ nreq' = nreq + 1
    /\ UNCHANGED <<fs, lock, th, faults, sizeVars, extVars>>

\* shutil.copyfileobj(f, self.wfile) copies the archive to its end.
ZipCopy(t) ==
    /\ stream[t].pc = "copy"
    /\ stream' = [stream EXCEPT ![t].pc = "done",
                                ![t].pos = stream[t].size,
                                ![t].open = FALSE]
    /\ UNCHANGED <<fs, lock, th, nreq, faults, sizeVars, extVars>>

\* The client leaves during the transfer: the write to the connection
\* raises, the with statement closes the file, and the except clause that
\* catches the exception runs.
ClientDisconnects(t, exc) ==
    /\ stream[t].pc \in {"loop", "copy"}
    /\ stream[t].pos < stream[t].size
    /\ faults < MaxFaults
    /\ LET out == OnLostConnection(stream[t].kind, exc)
       IN stream' = [stream EXCEPT ![t].pc = "done",
                                   ![t].open = FALSE,
                                   ![t].exc = exc,
                                   ![t].log = out.log,
                                   ![t].error_sent = out.error_sent,
                                   ![t].raised = out.raised]
    /\ faults' = faults + 1
    /\ UNCHANGED <<fs, lock, th, nreq, sizeVars, extVars>>

\* Reading the file raises OSError during the transfer while the client is
\* still there: the with statement closes the file and the except clause
\* that catches the exception runs; its send_error writes a status line and
\* a header block to the connection.
StreamReadFails(t) ==
    /\ stream[t].pc \in {"loop", "copy"}
    /\ stream[t].pos < stream[t].size
    /\ faults < MaxFaults
    /\ LET out == OnLostConnection(stream[t].kind, "OSError")
       IN stream' = [stream EXCEPT ![t].pc = "done",
                                   ![t].open = FALSE,
                                   ![t].exc = "OSError",
                                   ![t].log = out.log,
                                   ![t].error_sent = out.error_sent,
                                   ![t].responses = IF out.error_sent # 0 THEN @ + 1 ELSE @]
    /\ faults' = faults + 1
    /\ UNCHANGED <<fs, lock, th, nreq, sizeVars, extVars>>

\* A client opens a connection and sends a request.
ClientConnects(c) ==
    /\ c \notin srv.served
    /\ c # srv.handling
    /\ \A i \in 1..Len(srv.queue) : srv.queue[i] # c
    /\ srv' = [srv EXCEPT !.queue = Append(@, c)]
    /\ UNCHANGED <<fs, lock, th, nreq, faults, sizeVars, streamVars, MARKDOWN_AVAILABLE, boot, pager, listing>>

\* serve_forever: _handle_request_noblock accepts the connection at the head
\* of the queue and process_request runs its handler.
ServeAccept ==
    /\ srv.queue # <<>>
    /\ CanProcess(srv)
    /\ srv' = [srv EXCEPT !.queue = Tail(@), !.handling = Head(srv.queue), !.blocked = FALSE]
    /\ UNCHANGED <<fs, lock, th, nreq, faults, sizeVars, streamVars, MARKDOWN_AVAILABLE, boot, pager, listing>>

\* The handler blocks: its client reads slowly, the filesystem is slow or an
\* archive is being built.
HandlerBlocks ==
    /\ srv.handling # 0
    /\ ~srv.blocked
    /\ srv' = [srv EXCEPT !.blocked = TRUE]
    /\ UNCHANGED <<fs, lock, th, nreq, faults, sizeVars, streamVars, MARKDOWN_AVAILABLE, boot, pager, listing>>

\* What the handler waited for has happened.
HandlerResumes ==
    /\ srv.handling # 0
    /\ srv.blocked
    /\ srv' = [srv EXCEPT !.blocked = FALSE]
    /\ UNCHANGED <<fs, lock, th, nreq, faults, sizeVars, streamVars, MARKDOWN_AVAILABLE, boot, pager, listing>>

\* The handler returns and shutdown_request closes the connection.
HandlerFinishes ==
    /\ srv.handling # 0
    /\ ~srv.blocked
    /\ srv' = [srv EXCEPT !.served = @ \cup {srv.handling}, !.handling = 0]
    /\ UNCHANGED <<fs, lock, th, nreq, faults, sizeVars, streamVars, MARKDOWN_AVAILABLE, boot, pager, listing>>

\* start_serve(initial_port = p) is called while the ports are held as
\* holders tells; it reaches the first kill_process_on_port.
StartServe(p, holders) ==
    /\ boot.pc = "start"
    /\ boot' = [boot EXCEPT !.pc = "kill_initial", !.initial_port = p, !.port = p,
                            !.holders = holders]
    /\ UNCHANGED <<fs, lock, th, nreq, faults, sizeVars, streamVars, MARKDOWN_AVAILABLE, srv, pager, listing>>

\* kill_process_on_port(port) before the loop.
BootKillInitial ==
    /\ boot.pc = "kill_initial"
    /\ boot' = [kill_process_on_port(boot, boot.port) EXCEPT !.pc = "bind"]
    /\ UNCHANGED <<fs, lock, th, nreq, faults, sizeVars, streamVars, MARKDOWN_AVAILABLE, srv, pager, listing>>

\* socketserver.TCPServer(("", port), Handler) binds: the server serves.
BootBindSucceeds ==
    /\ boot.pc = "bind"
    /\ HolderOf(boot, boot.port) = "free"
    /\ boot' = [boot EXCEPT !.pc = "serving", !.binds = Append(@, boot.port)]
    /\ UNCHANGED <<fs, lock, th, nreq, faults, sizeVars, streamVars, MARKDOWN_AVAILABLE, srv, pager, listing>>

\* A failed bind after which the loop tries the same port again.
BootBindFailsSamePort ==
    /\ boot.pc = "bind"
    /\ HolderOf(boot, boot.port) # "free"
    /\ boot' = [boot EXCEPT !.pc = "kill_next",
                            !.last_failed = boot.port,
                            !.binds = Append(@, boot.port)]
    /\ UNCHANGED <<fs, lock, th, nreq, faults, sizeVars, streamVars, MARKDOWN_AVAILABLE, srv, pager, listing>>

\* The bind raises OSError with errno 98: port += 1, and sys.exit(1) when
\* the port is then above 65535.
BootBindFails ==
    /\ boot.pc = "bind"
    /\ HolderOf(boot, boot.port) # "free"
    /\ boot' = [boot EXCEPT !.pc = IF boot.port + 1 > MaxPort THEN "exit" ELSE "kill_next",
                            !.port = boot.port + 1,
                            !.last_failed = boot.port,
                            !.binds = Append(@, boot.port)]
    /\ UNCHANGED <<fs, lock, th, nreq, faults, sizeVars, streamVars, MARKDOWN_AVAILABLE, srv, pager, listing>>

\* The bind raises OSError with another errno (the port may not be bound by
\* this user, for one): the error is logged and raised again, out of
\* start_serve.
BootBindRaises ==
    /\ boot.pc = "bind"
    /\ boot' = [boot EXCEPT !.pc = "raised", !.binds = Append(@, boot.port)]
    /\ UNCHANGED <<fs, lock, th, nreq, faults, sizeVars, streamVars, MARKDOWN_AVAILABLE, srv, pager, listing>>

\* kill_process_on_port(port) in the except clause, port being the
\* incremented one; the loop then tries to bind it.
BootKillNext ==
    /\ boot.pc = "kill_next"
    /\ boot' = [kill_process_on_port(boot, boot.port) EXCEPT !.pc = "bind", !.last_failed = 0]
    /\ UNCHANGED <<fs, lock, th, nreq, faults, sizeVars, streamVars, MARKDOWN_AVAILABLE, srv, pager, listing>>

\* list_directory on a page of entries: generate_html_list makes the rows
\* and the page is sent with status 200; an exception that leaves
\* generate_html_list leaves do_GET as well, and nothing is sent.
ListRows(entries) ==
    /\ LET r == RenderRows(entries, 1, Unbound)
       IN listing' = [entries |-> entries,
                      rows |-> IF r.raised THEN <<>> ELSE r.rows,
                      status |-> IF r.raised THEN 0 ELSE 200]
    /\ UNCHANGED <<fs, lock, th, nreq, faults, sizeVars, streamVars, MARKDOWN_AVAILABLE, boot, srv, pager>>

\* generate_html_list builds the pagination controls of page `page` of
\* total_pages for a search term.
Paginate(page, total_pages, search) ==
    /\ pager' = [NoPager EXCEPT !.page = page,
                                !.listed = TRUE,
                                !.total_pages = total_pages,
                                !.search = search,
                                !.links = pagination_links(page, total_pages, search)]
    /\ UNCHANGED <<fs, lock, th, nreq, faults, sizeVars, streamVars, MARKDOWN_AVAILABLE, boot, srv, listing>>

\* A client follows pagination link i.  When do_GET hands the request to
\* list_directory, that reads page and search from the query string of the
\* link, clamps the page, and the controls of that page are generated for
\* the same directory; when do_GET takes the archive branch instead, no
\* listing is made.
FollowLink(i) ==
    /\ i \in 1..Len(pager.links)
    /\ pager.links[i].tag = "a"
    /\ LET path == PagedDir \o Href(pager.links[i])
           search == Lower(QueryGet(path, kSearch, <<>>))
           page == ClampPage(IntValue(QueryGet(path, kPage, <<"1">>)), pager.total_pages)
       IN pager' = IF ReachesListing(path)
                   THEN [page |-> page,
                         total_pages |-> pager.total_pages,
                         search |-> search,
                         links |-> pagination_links(page, pager.total_pages, search),
                         listed |-> TRUE,
                         followed |-> TRUE,
                         origin |-> pager.search,
                         target |-> pager.links[i].page]
                   ELSE [NoPager EXCEPT !.total_pages = pager.total_pages,
                                        !.followed = TRUE,
                                        !.origin = pager.search,
                                        !.target = pager.links[i].page]
    /\ UNCHANGED <<fs, lock, th, nreq, faults, sizeVars, streamVars, MARKDOWN_AVAILABLE, boot, srv, listing>>

Next ==
    \/ \E t \in Threads, r \in Requests : DoGet(t, r)
    \/ \E t \in Threads, r \in Requests : DoGetZip(t, r)
    \/ \E t \in Threads : Acquire(t)
    \/ \E t \in Threads : CheckExists(t)
    \/ \E t \in Threads : CheckAbsent(t)
    \/ \E t \in Threads : OpenZip(t)
    \/ \E t \in Threads : WalkZip(t)
    \/ \E t \in Threads : WalkZipCopiesItself(t)
    \/ \E t \in Threads : CloseZip(t)
    \/ \E t \in Threads : MoveZip(t)
    \/ \E t \in Threads : BuildFails(t)
    \/ \E t \in Threads : ExceptCleanup(t)
    \/ \E t \in Threads : ExceptCleanupFails(t)
    \/ \E t \in Threads : SendZip(t)
    \/ EnvAddFile

Spec == Init /\ [][Next]_vars

\* The steps of one handler thread inside an archive request that need
\* nothing but processor time.
ArchiveStep(t) ==
    \/ CheckExists(t) \/ CheckAbsent(t) \/ OpenZip(t) \/ WalkZip(t)
    \/ WalkZipCopiesItself(t) \/ CloseZip(t) \/ MoveZip(t)
    \/ ExceptCleanup(t) \/ ExceptCleanupFails(t) \/ SendZip(t)

\* The server answering archive requests only.
NextArchive ==
    \/ \E t \in Threads, r \in Requests : DoGetZip(t, r)
    \/ \E t \in Threads : Acquire(t)
    \/ \E t \in Threads : ArchiveStep(t)
    \/ \E t \in Threads : BuildFails(t)

\* Fair scheduling: a thread that can take a step takes it, and a thread
\* that finds the lock free again and again acquires it. Requests and I/O
\* failures come as they will.
SpecArchive ==
    /\ Init /\ [][NextArchive]_vars
    /\ \A t \in Threads : WF_vars(ArchiveStep(t)) /\ SF_vars(Acquire(t))

\* The server answering listing requests while files leave the directory m.
NextList ==
    \/ \E t \in Threads, r \in ListRequests : DoGet(t, r)
    \/ \E n \in {<<"&", "u">>, <<"&", "T">>} : EnvRemoveFile(n)

SpecList == Init /\ [][NextList]_vars

\* The server answering requests for text files, with the markdown package
\* or without it.
NextText ==
    \E t \in Threads, r \in TextRequests : DoGet(t, r)

SpecText == InitText /\ [][NextText]_vars

\* The server answering listings that show the size of D while files are
\* added to D.
NextSize ==
    \/ \E t \in Threads : SizeStat(t)
    \/ \E t \in Threads : SizeStatFails(t)
    \/ \E t \in Threads : SizeWalk(t)
    \/ \E t \in Threads : SizeWalkFails(t)
    \/ \E t \in Threads : SizeRender(t)
    \/ \E n \in AddedFiles : EnvAddSized(n)

SpecSize == Init /\ [][NextSize]_vars

\* The size cache while files change inside a subdirectory of D as well.
NextNested ==
    \/ \E t \in Threads : SizeStat(t)
    \/ \E t \in Threads : SizeStatFails(t)
    \/ \E t \in Threads : SizeWalk(t)
    \/ \E t \in Threads : SizeWalkFails(t)
    \/ \E t \in Threads : SizeRender(t)
    \/ \E tree \in SUBSET (SizedFiles \cup NestedFiles) : EnvChangeNested(tree)

SpecNested == Init /\ [][NextNested]_vars

\* Listings served one at a time, more of them than the cache has room for,
\* while the file c is added to D at some point of the run.
NextLru ==
    \/ ListSerially
    \/ EnvAddSized("c")

SpecLru == Init /\ [][NextLru]_vars

\* The server streaming file contents.
NextStream ==
    \/ \E t \in Threads, size \in StreamSizes : StreamOpen(t, size)
    \/ \E t \in Threads : StreamNotFound(t)
    \/ \E t \in Threads : StreamChunk(t)
    \/ \E t \in Threads, kind \in {"zip_existing", "zip_dynamic"} :
          ZipOpen(t, kind, FILE_CHUNK_SIZE + 1)
    \/ \E t \in Threads : ZipCopy(t)
    \/ \E t \in Threads, exc \in DisconnectErrors : ClientDisconnects(t, exc)
    \/ \E t \in Threads : StreamReadFails(t)

SpecStream == Init /\ [][NextStream]_vars

\* Listings of every page of every size up to MaxPages, and the pages their
\* pagination links lead to.
NextPager ==
    \/ \E total_pages \in 1..MaxPages, search \in PagerTerms :
          \E page \in 1..total_pages : Paginate(page, total_pages, search)
    \/ \E i \in 1..(MaxPages + 4) : FollowLink(i)

SpecPager == Init /\ [][NextPager]_vars

\* Listings of pages whose entries can or cannot be stat'ed.
NextRows == \E entries \in Pages : ListRows(entries)

SpecRows == Init /\ [][NextRows]_vars

\* start_serve from its call to serve_forever or sys.exit.
NextBoot ==
    \/ \E p \in InitialPorts : \E holders \in [PortsFrom(p) -> PortStates] :
          StartServe(p, holders)
    \/ BootKillInitial
    \/ BootBindSucceeds
    \/ BootBindFails
    \/ BootBindRaises
    \/ BootKillNext

SpecBoot == Init /\ [][NextBoot]_vars

\* start_serve runs in the main thread and is never suspended for good:
\* each statement it has reached is executed.
SpecBootLive == Init /\ [][NextBoot]_vars /\ WF_vars(NextBoot)

\* serve_forever.  The loop goes on whenever it can and a handler that is
\* not blocked returns; nothing makes a blocked handler resume.
NextServe ==
    \/ \E c \in Conns : ClientConnects(c)
    \/ ServeAccept
    \/ HandlerBlocks
    \/ HandlerResumes
    \/ HandlerFinishes

SpecServe ==
    /\ Init
    /\ [][NextServe]_vars
    /\ WF_vars(ServeAccept)
    /\ WF_vars(HandlerFinishes)

(***************************************************************************)
(* Archive builder: properties                                             *)
(***************************************************************************)

\* The positions inside the with zip_creation_lock block of create_zip.
BuildSection == {"check", "open", "walk", "copy", "close", "move", "except"}

\* The paths requested as archives: the resolved paths of the requests
\* that end in .zip.
ZipTargets == {Facts[r].full_path : r \in {q \in Requests : Facts[q].zip}}

\* C1: at every moment, a file at an archive target path is a complete
\* archive (never a partially written one), and every archive body a
\* reader was sent is a complete archive.
C1_NoPartialArchiveAtTarget ==
    /\ \A p \in ZipTargets : is_file(fs, p) => fs[p].archive /\ fs[p].complete
    /\ \A t \in Threads : th[t].resp.kind = "zip" =>
            th[t].resp.zip.archive /\ th[t].resp.zip.complete

\* C1 witness: one thread is in the middle of a build (its temporary file
\* holds entries but is not closed) while another request for the same
\* target is in flight and sees no archive at the target.
C1_Witness ==
    \E t1, t2 \in Threads :
        /\ t1 # t2
        /\ th[t1].pc = "close"
        /\ exists(fs, th[t1].tmp)
        /\ fs[th[t1].tmp].entries # {}
        /\ ~fs[th[t1].tmp].complete
        /\ th[t2].pc = "lock"
        /\ th[t2].zip = th[t1].zip
        /\ ~exists(fs, th[t1].zip)

\* C2: at most one thread is inside the build section of create_zip, and
\* it is the thread that holds zip_creation_lock.
C2_BuildsMutuallyExclusive ==
    /\ Cardinality({t \in Threads : th[t].pc \in BuildSection}) <= 1
    /\ \A t \in Threads : th[t].pc \in BuildSection => lock = t

\* C2 witness: a thread is building one archive while a request for a
\* different directory and target waits for the lock.
C2_Witness ==
    \E t1, t2 \in Threads :
        /\ th[t1].pc = "walk"
        /\ th[t2].pc = "lock"
        /\ th[t1].zip # th[t2].zip
        /\ th[t1].dir # th[t2].dir

\* C3: once an archive file exists at a target path, every step leaves it
\* in place and unchanged, no build for that target is running, and a
\* create_zip call that has taken the lock for it returns True without
\* writing anything.
C3_Step ==
    \A p \in ZipTargets :
        is_file(fs, p) =>
            /\ is_file(fs', p) /\ fs'[p] = fs[p]
            /\ \A t \in Threads :
                    th[t].zip = p =>
                        /\ th[t].pc \notin {"open", "walk", "copy", "close", "move", "except"}
                        /\ th'[t].pc \notin {"open", "walk", "copy", "close", "move", "except"}
                        /\ (th[t].pc = "check" /\ th'[t].pc # "check") =>
                                (th'[t].pc = "send" /\ th'[t].ret /\ fs' = fs)

C3_ExistingArchiveReused == [][C3_Step]_vars

\* C3 witness: a create_zip call found the archive already built (by the
\* other thread) and returned True at once.
C3_Witness ==
    \E t \in Threads :
        /\ th[t].pc = "send"
        /\ th[t].early
        /\ th[t].ret
        /\ ~th[t].preexisting
        /\ is_file(fs, th[t].zip)
        /\ fs[th[t].zip].archive

\* The return of create_zip after a failed build, and the response do_GET
\* sends for it; the cleanup must have removed the temporary file when
\* strict, and may have failed itself otherwise.
C4_Step(strict) ==
    \A t \in Threads :
        /\ (th[t].pc = "except" /\ th'[t].pc = "send") =>
                /\ ~th'[t].ret
                /\ ~exists(fs', th[t].tmp) \/ (~strict /\ th'[t].unlinkFailed)
                /\ exists(fs', th[t].zip) => th[t].preexisting
        /\ (th[t].pc = "send" /\ th[t].failed /\ th'[t].pc = "idle") =>
                th'[t].resp.status = 500

\* C4 as claimed: after a failed build create_zip returns False, the
\* temporary file no longer exists, no file is at the target path that was
\* not there before, and the request is answered with a server error.
C4_FailedBuildLeavesNoTemp == [][C4_Step(TRUE)]_vars

\* C4 as amended: the same, except that the temporary file remains when
\* deleting it fails too (the failure is logged and create_zip still
\* returns False).
C4_FailedBuildCleansUp == [][C4_Step(FALSE)]_vars

\* C4 witness: a build failed after its temporary file had been created,
\* the file is gone, and the request was answered with status 500.
C4_Witness ==
    \E t \in Threads :
        /\ th[t].pc = "idle"
        /\ th[t].failed
        /\ ~th[t].unlinkFailed
        /\ th[t].tmp \in th[t].acc
        /\ ~exists(fs, th[t].tmp)
        /\ ~exists(fs, th[t].zip)
        /\ th[t].resp.status = 500

\* C5: whenever create_zip returns True, the target holds a complete
\* archive with exactly one entry per regular file under the directory,
\* each named by its path relative to the directory.
C5_Step ==
    \A t \in Threads :
        (th[t].pc \in {"check", "move"} /\ th'[t].pc = "send" /\ th'[t].ret) =>
            /\ is_file(fs', th[t].zip)
            /\ fs'[th[t].zip].archive
            /\ fs'[th[t].zip].complete
            /\ fs'[th[t].zip].entries = ZipEntries(fs', th[t].dir)

C5_ArchiveHoldsExactlyTheFiles == [][C5_Step]_vars

(***************************************************************************)
(* Router: properties                                                      *)
(***************************************************************************)

\* The path component of a request target: what precedes the query string.
UrlPath(path) == SplitHead(path, "?")

\* The handling path the ordered rules of the router contract select, the
\* rules being read on the path component of the URL.
ExpectedRule(f, path) ==
    LET full == translate_path(path)
    IN IF StartsWith(UrlPath(path), <<"/">> \o STATIC_DIR_NAME \o <<"/">>) THEN "static"
       ELSE IF EndsWith(UrlPath(path), ZipSuffix) /\ is_file(f, full) THEN "zip_existing"
       ELSE IF EndsWith(UrlPath(path), ZipSuffix)
               /\ is_dir(f, translate_path(DropLast(UrlPath(path), 4))) THEN "zip_build"
       ELSE IF EndsWith(UrlPath(path), ZipSuffix) THEN "zip_notfound"
       ELSE IF is_file(f, full) /\ is_text_like(full) THEN "text"
       ELSE IF is_dir(f, full) THEN "listing"
       ELSE "passthrough"

\* The handling path do_GET took: its last branch, super().do_GET(), is the
\* Listing Renderer rule for a directory and the pass-through rule otherwise.
TakenRule(f, path, branch) ==
    IF branch = "super"
    THEN IF is_dir(f, Facts[path].full_path) THEN "listing" ELSE "passthrough"
    ELSE branch

\* A step in which thread t starts handling a request.
Dispatches(t) == nreq' = nreq + 1 /\ th'[t] # th[t]

\* C6: every request is dispatched to the handling path selected by the
\* first matching rule of the router contract.
C6_Step ==
    \A t \in Threads :
        Dispatches(t) =>
            TakenRule(fs, th'[t].req, th'[t].branch) = ExpectedRule(fs, th'[t].req)

C6_DispatchFollowsRuleOrder == [][C6_Step]_vars

\* C35: a request that do_GET hands to super().do_GET(), a listing request
\* with any value of the page parameter among them, is answered: the handler
\* sends a response before it returns, and no exception leaves it.
C35_PageValueAlwaysAnswered ==
    \A t \in Threads :
        (/\ th[t].pc = "idle"
         /\ th[t].req # <<>>
         /\ th[t].branch = "super") =>
            (th[t].resp.status # 0 /\ th[t].resp.kind # "exception")

\* The branches of do_GET that apply the archive rules.
ArchiveBranches == {"zip_existing", "zip_build", "zip_notfound"}

\* C33: whether do_GET handles a request by the archive rules depends on the
\* path component of its target alone: two requests that differ in their
\* query strings only are both handled by the archive rules or both not.
C33_QueryNeverChangesArchiveRule ==
    \A t, u \in Threads :
        (/\ th[t].req # <<>>
         /\ th[u].req # <<>>
         /\ UrlPath(th[t].req) = UrlPath(th[u].req)) =>
            ((th[t].branch \in ArchiveBranches) <=> (th[u].branch \in ArchiveBranches))

\* C7: every request for an existing directory outside the static prefix
\* (in the directory's own URL form, with the trailing slash) is answered
\* with the listing page, whatever its page and search parameters are.
C7_DirectoryAnsweredWithListing ==
    \A t \in Threads :
        (/\ th[t].pc = "idle"
         /\ th[t].req # <<>>
         /\ ~Facts[th[t].req].static
         /\ Facts[th[t].req].slash
         /\ is_dir(fs, Facts[th[t].req].full_path)) =>
            (th[t].resp.status = 200 /\ th[t].resp.kind = "listing")

\* A request whose URL path ends in .zip (outside the static prefix) with no
\* file at the resolved path and no directory at the path without the suffix.
UnmatchedZipRequest(f, path) ==
    /\ ~StartsWith(UrlPath(path), <<"/">> \o STATIC_DIR_NAME \o <<"/">>)
    /\ EndsWith(UrlPath(path), ZipSuffix)
    /\ ~is_file(f, translate_path(path))
    /\ ~is_dir(f, translate_path(DropLast(UrlPath(path), 4)))

\* C8: an archive request that matches neither an existing file nor an
\* existing directory is answered with Not-Found in the step that
\* dispatches it, and that step leaves the filesystem as it was.
C8_Step ==
    \A t \in Threads :
        (Dispatches(t) /\ UnmatchedZipRequest(fs, th'[t].req)) =>
            /\ th'[t].pc = "idle"
            /\ th'[t].resp.status = 404
            /\ fs' = fs

C8_UnmatchedZipIsNotFound == [][C8_Step]_vars

\* C9: every filesystem path a handler stats, opens, enumerates or writes
\* lies inside the shared root.
C9_NoPathEscapesRoot ==
    \A t \in Threads : \A p \in th[t].acc : IsUnder(p, Cwd)

\* C9 witness: a request with '..' segments pointing above the root was
\* answered Not-Found, and an archive was built and sent for a request
\* that reaches its directory through a '..' segment.
C9_Witness ==
    \E t1, t2 \in Threads :
        /\ th[t1].req \in {rUpOut, rUpOutEnc, rStaticUp}
        /\ th[t1].acc # {}
        /\ th[t1].resp.status = 404
        /\ th[t2].req = rUpDZip
        /\ th[t2].resp.kind = "zip"
        /\ th[t2].zip \in th[t2].acc
        /\ th[t2].tmp \in th[t2].acc

\* The character references html.escape writes.
Entities ==
    {<<"&", "a", "m", "p", ";">>, <<"&", "l", "t", ";">>, <<"&", "g", "t", ";">>,
     <<"&", "q", "u", "o", "t", ";">>, <<"&", "#", "x", "2", "7", ";">>}

\* Every '&' of s begins a character reference.
AmpersandsEscaped(s) ==
    \A i \in 1..Len(s) :
        s[i] = "&" => \E e \in Entities : StartsWith(SubSeq(s, i, Len(s)), e)

\* s holds none of the characters of set cs.
HasNone(s, cs) == \A i \in 1..Len(s) : s[i] \notin cs

\* The characters '<', '>', '&' and the quotes appear in s in escaped form only.
FullyEscaped(s) == HasNone(s, {"<", ">", "\"", "'"}) /\ AmpersandsEscaped(s)

\* What is written at a place of the page cannot end that place or begin
\* markup there: an attribute value holds no raw '<', '>', '&' or quote,
\* element content no raw '<', '>' or '&', and the query of a link target
\* none of these characters at all.
PieceSafe(pc) ==
    CASE pc.ctx = "attr" -> FullyEscaped(pc.s)
      [] pc.ctx = "text" -> HasNone(pc.s, {"<", ">"}) /\ AmpersandsEscaped(pc.s)
      [] pc.ctx = "url"  -> HasNone(pc.s, {"<", ">", "&", "\"", "'"})

\* The parts of a listing page that come from entry names and the search term.
PiecesOf(html) ==
    {html.search_box}
    \cup UNION {Range(html.rows[i]) : i \in 1..Len(html.rows)}
    \cup {html.pagination[i].search : i \in 1..Len(html.pagination)}

\* The listing pages that have been rendered.
RenderedListings == {th[t].resp.html : t \in {u \in Threads : th[u].resp.kind = "listing"}}

\* C10, as stated: in every rendered listing, entry names and the search
\* term appear with '<', '>', '&' and both quotes escaped at every place:
\* link targets, display text, the search box and pagination links.
C10_EveryPlaceFullyEscaped ==
    \A html \in RenderedListings : \A pc \in PiecesOf(html) :
        IF pc.ctx = "url" THEN PieceSafe(pc) ELSE FullyEscaped(pc.s)

\* C10, amended: in every rendered listing, entry names and the search
\* term are written so that they cannot introduce markup: '<', '>' and '&'
\* are escaped at every place, quotes are escaped inside attribute values
\* (link targets, the search box) and left as they are in display text,
\* and pagination links carry the search term percent-encoded.
C10_ListingMarkupSafe ==
    \A html \in RenderedListings : \A pc \in PiecesOf(html) : PieceSafe(pc)

\* C10 witness: a listing was rendered that shows the entry named <b>&"'
\* for a search term holding the same characters, and a second page of a
\* listing was rendered whose pagination links carry the search term '&'.
C10_Witness ==
    \E t1, t2 \in Threads :
        /\ th[t1].req = rDSearchTag
        /\ th[t1].resp.kind = "listing"
        /\ th[t1].resp.html.search_box.s = escape(nTag, TRUE)
        /\ \E i \in 1..Len(th[t1].resp.html.rows) :
              th[t1].resp.html.rows[i][2] = Piece("text", escape(nTag, FALSE))
        /\ th[t2].req = rMSearchPage
        /\ th[t2].resp.kind = "listing"
        /\ th[t2].resp.html.page = 2
        /\ \E i \in 1..Len(th[t2].resp.html.pagination) :
              /\ th[t2].resp.html.pagination[i].tag = "a"
              /\ th[t2].resp.html.pagination[i].search.s = <<"%", "2", "6">>

(***************************************************************************)
(* The page of a listing                                                   *)
(***************************************************************************)

\* The names in directory d.
NamesIn(f, d) == {PathName(p) : p \in iterdir(f, d)}

\* The names of S whose lower-case form contains the lower-cased term (all
\* of S for the empty term).
Matching(S, term) == {n \in S : term = <<>> \/ IsSubstring(Lower(term), Lower(n))}

\* The number of names of F that come before x in case-insensitive order.
Rank(F, x) == Cardinality({y \in F : StrLess(Lower(y), Lower(x))})

\* max(1, ceil(n / 20))
TotalPages(n) == Max(1, IF n % 20 = 0 THEN n \div 20 ELSE n \div 20 + 1)

\* q holds exactly elements [(P-1)*20, P*20) of F in ascending
\* case-insensitive order: q ascends, its entries are names of F, exactly
\* (P-1)*20 names of F come before its first entry, every other name of F
\* outside q comes after its last, and it is as long as F allows.
IsPageOf(q, F, P) ==
    /\ \A i \in 1..Len(q) : q[i] \in F
    /\ \A i \in 1..(Len(q) - 1) : StrLess(Lower(q[i]), Lower(q[i + 1]))
    /\ Len(q) = Max(0, Min(20, Cardinality(F) - (P - 1) * 20))
    /\ Len(q) > 0 =>
          /\ Rank(F, q[1]) = (P - 1) * 20
          /\ \A x \in F \ Range(q) :
                \/ StrLess(Lower(x), Lower(q[1]))
                \/ StrLess(Lower(q[Len(q)]), Lower(x))

\* The rows of the page are those of its entries, in the same order.
RowsShow(f, d, html) ==
    /\ Len(html.rows) = Len(html.entries)
    /\ \A i \in 1..Len(html.rows) :
          html.rows[i][2].s =
              escape(html.entries[i], FALSE)
                  \o (IF is_dir(f, Append(d, html.entries[i])) THEN <<"/">> ELSE <<>>)

\* The search term and the page parameter of each request, as the client
\* sent them.
SearchTerms == [r \in Requests \cup ListRequests |-> QueryGet(r, kSearch, <<>>)]
PageParams  == [r \in Requests \cup ListRequests |-> QueryGet(r, kPage, <<"1">>)]
SearchTerm(path) == SearchTerms[path]
PageParam(path) == PageParams[path]

\* Thread t answers a request with a rendered listing in this step.
RendersListing(t) == Dispatches(t) /\ th'[t].resp.kind = "listing"

\* The names of the listed directory that match the request's search term.
MatchingOf(t) ==
    Matching(NamesIn(fs, Facts[th'[t].req].full_path), SearchTerm(th'[t].req))

C11_Step ==
    \A t \in Threads :
        (/\ RendersListing(t)
         /\ IntValue(PageParam(th'[t].req)) >= 1
         /\ IntValue(PageParam(th'[t].req)) <= TotalPages(Cardinality(MatchingOf(t)))) =>
            /\ th'[t].resp.html.total_pages = TotalPages(Cardinality(MatchingOf(t)))
            /\ th'[t].resp.html.page = IntValue(PageParam(th'[t].req))
            /\ IsPageOf(th'[t].resp.html.entries, MatchingOf(t),
                        IntValue(PageParam(th'[t].req)))
            /\ RowsShow(fs, Facts[th'[t].req].full_path, th'[t].resp.html)

\* C11: a listing rendered for page P in [1, totalPages] of a directory with
\* N matching entries reports totalPages = max(1, ceil(N/20)) and shows
\* exactly elements [(P-1)*20, P*20) of the matching names in ascending
\* case-insensitive order.
C11_PageIsWindowOfSortedList == [][C11_Step]_vars

\* C11 witness: the first page of the 21 entries of m was rendered with 20
\* rows, and the second page of the search for '&' with the one remaining.
C11_Witness ==
    \E t1, t2 \in Threads :
        /\ th[t1].req = lM
        /\ th[t1].resp.kind = "listing"
        /\ th[t1].resp.html.total_pages = 2
        /\ Len(th[t1].resp.html.rows) = 20
        /\ th[t2].req = rMSearchPage
        /\ th[t2].resp.kind = "listing"
        /\ th[t2].resp.html.page = 2
        /\ th[t2].resp.html.entries = <<<<"&", "u">>>>

C12_Step ==
    \A t \in Threads :
        RendersListing(t) =>
            LET P == IntValue(PageParam(th'[t].req))
                T == TotalPages(Cardinality(MatchingOf(t)))
                served == IF P < 1 THEN 1 ELSE IF P > T THEN T ELSE P
            IN /\ th'[t].resp.html.page = served
               /\ Len(th'[t].resp.html.entries)
                     = Max(0, Min(20, Cardinality(MatchingOf(t)) - (served - 1) * 20))
               /\ Len(th'[t].resp.html.entries) > 0 =>
                     Rank(MatchingOf(t), th'[t].resp.html.entries[1]) = (served - 1) * 20

\* C12: the requested page is clamped into [1, totalPages] before slicing:
\* a page below 1 is served as page 1, a page above totalPages as page
\* totalPages.
C12_PageClamped == [][C12_Step]_vars

\* C12 witness: page=0 and page=-1 of m were served as page 1 with 20
\* entries, or page=7 as page 2 (the last) with the one entry left.
C12_Witness ==
    \E t1, t2 \in Threads :
        /\ th[t1].req \in {lMPage0, lMPageNeg}
        /\ th[t1].resp.html.page = 1
        /\ Len(th[t1].resp.html.entries) = 20
        /\ th[t2].req = lMPage7
        /\ th[t2].resp.html.page = 2
        /\ th[t2].resp.html.total_pages = 2
        /\ Len(th[t2].resp.html.entries) = 1

\* A rendered listing shows only names that match the search term (with an
\* empty term all names match), in ascending case-insensitive order, and a
\* listing of one page shows all of them.
KeepsExactlyMatches(t) ==
    RendersListing(t) =>
        /\ \A i \in 1..Len(th'[t].resp.html.entries) :
              th'[t].resp.html.entries[i] \in MatchingOf(t)
        /\ \A i \in 1..(Len(th'[t].resp.html.entries) - 1) :
              StrLess(Lower(th'[t].resp.html.entries[i]),
                      Lower(th'[t].resp.html.entries[i + 1]))
        /\ th'[t].resp.html.total_pages = 1 =>
              Range(th'[t].resp.html.entries) = MatchingOf(t)

\* Thread t answers the search for "t" in the directory holding Test.txt,
\* alpha and TABLE.csv.
AnswersExample(t) ==
    /\ RendersListing(t)
    /\ th'[t].req = lTSearch
    /\ NamesIn(fs, <<nSrv, nT>>) = {nTest, nAlpha, nTable}

C13_StepAsStated ==
    \A t \in Threads :
        /\ KeepsExactlyMatches(t)
        /\ AnswersExample(t) => th'[t].resp.html.entries = <<nTest, nTable>>

\* C13, as stated: search keeps exactly the names whose lower-case form
\* contains the lower-cased term and returns them sorted; the term "t"
\* against Test.txt, alpha, TABLE.csv returns Test.txt, TABLE.csv in that
\* order.
C13_SearchReturnsTestThenTable == [][C13_StepAsStated]_vars

C13_Step ==
    \A t \in Threads :
        /\ KeepsExactlyMatches(t)
        /\ AnswersExample(t) => th'[t].resp.html.entries = <<nTable, nTest>>

\* C13, amended: search keeps exactly the names whose lower-case form
\* contains the lower-cased term (an empty term keeps all) and returns them
\* in ascending case-insensitive order; the term "t" against Test.txt,
\* alpha, TABLE.csv returns TABLE.csv, Test.txt in that order.
C13_SearchKeepsMatchesSorted == [][C13_Step]_vars

\* C13 witness: the example search was answered, a search with an upper-case
\* term kept the one name containing its lower-case form, and a blank term
\* kept all three names.
C13_Witness ==
    \E t1, t2 \in Threads :
        /\ th[t1].req = lTSearch
        /\ th[t1].resp.html.entries = <<nTable, nTest>>
        /\ \/ /\ th[t2].req = lMSearchA
              /\ th[t2].resp.html.entries = <<<<"&", "a">>>>
           \/ /\ th[t2].req = lTBlank
              /\ th[t2].resp.html.entries = <<nAlpha, nTable, nTest>>

\* C14: no rendered listing has a row for a hidden entry (a name starting
\* with '.'): such entries are excluded before the search filter is applied.
C14_NoHiddenRow ==
    \A html \in RenderedListings :
        \A i \in 1..Len(html.entries) : Head(html.entries[i]) # "."

\* A request for the listing of a directory (in its URL form with the
\* trailing slash) that the process may not enumerate has been answered.
AnsweredUnreadable(t) ==
    /\ th[t].req # <<>>
    /\ th[t].pc = "idle"
    /\ th[t].branch = "super"
    /\ Facts[th[t].req].slash
    /\ is_dir(fs, Facts[th[t].req].full_path)
    /\ ~fs[Facts[th[t].req].full_path].readable

\* C15: when the directory cannot be enumerated the request is answered
\* with Not-Found and nothing of a listing: no success status, no row.
C15_UnreadableIsNotFound ==
    \A t \in Threads :
        AnsweredUnreadable(t) =>
            /\ th[t].resp.status = 404
            /\ th[t].resp.kind = "error"
            /\ th[t].resp.html = NoHtml

\* C15 witness: both requests for the unreadable directory u were answered,
\* the one with a page parameter that is no integer among them.
C15_Witness ==
    \E t1, t2 \in Threads :
        /\ th[t1].req = lU
        /\ th[t2].req = lUPageX
        /\ AnsweredUnreadable(t1)
        /\ AnsweredUnreadable(t2)
        /\ th[t2].resp.status = 404

(***************************************************************************)
(* The size of a directory                                                 *)
(***************************************************************************)

\* A call of get_directory_size has returned and its row is not yet written.
Returned(t) == sz[t].pc = "done"

\* The call returned 0 because Path(path).stat() raised: no st_mtime was read.
StatFailed(t) == sz[t].failed /\ ~sz[t].walked

\* C16: get_directory_size never returns a cached total that was stored
\* under a modification time other than the one it read at the start of the
\* call, and a call that finds only totals stored under other modification
\* times walks the directory afresh.
C16_NoTotalOfAnotherMtime ==
    \A t \in Threads :
        Returned(t) /\ ~StatFailed(t) =>
            /\ ~sz[t].walked => sz[t].stored = sz[t].mtime
            /\ sz[t].stale => sz[t].walked

\* C16 witness: a call that read a modification time under which the cache
\* held no total, while it held one stored under an earlier modification
\* time, has walked the directory and returned the size of all its files.
C16_Witness ==
    \E t \in Threads :
        /\ Returned(t)
        /\ sz[t].stale
        /\ sz[t].walked
        /\ ~sz[t].failed
        /\ sz[t].mtime > 0
        /\ sz[t].ret = WalkTotal(dtree)
        /\ \E j \in 1..Len(size_cache) : size_cache[j].mtime < sz[t].mtime

\* C17: once a total of D has been computed under a modification time, a
\* call that begins later and reads the same modification time, in whatever
\* request it is made, returns that total without walking the directory.
C17_LaterCallDoesNotWalk ==
    \A t \in Threads :
        Returned(t) /\ faults = 0 /\ sz[t].known =>
            /\ ~sz[t].walked
            /\ sz[t].ret = sz[t].prev

\* The call of t began after files had been added to D since the call before
\* it returned, and ran without error.
CalledAfterAddition(t) ==
    /\ Returned(t)
    /\ ~sz[t].failed
    /\ sz[t].prev >= 0
    /\ sz[t].adds >= 1

\* C18 as stated: the first call after a file was added to D walks the
\* directory and returns a total strictly larger than the call before did.
C18_NextTotalStrictlyLarger ==
    \A t \in Threads :
        CalledAfterAddition(t) =>
            /\ sz[t].walked
            /\ sz[t].ret > sz[t].prev

\* C18: the first call after files were added to D walks the directory and
\* returns a total that is at least the total returned before plus the sizes
\* of the files added: strictly larger unless every added file is empty.
C18_NextTotalGrowsByAdded ==
    \A t \in Threads :
        CalledAfterAddition(t) =>
            /\ sz[t].walked
            /\ sz[t].ret >= sz[t].prev + sz[t].grown
            /\ sz[t].grown > 0 => sz[t].ret > sz[t].prev

\* C18 witness: a call returned the size of a and sub/b, then the file c
\* of two bytes was added and the next call returned two bytes more.
C18_Witness ==
    \E t \in Threads :
        /\ CalledAfterAddition(t)
        /\ sz[t].adds = 1
        /\ sz[t].grown = st_size["c"]
        /\ sz[t].prev = WalkTotal(StartFiles)
        /\ sz[t].walked
        /\ sz[t].ret = WalkTotal(StartFiles) + st_size["c"]

\* C19: a call of get_directory_size in which the stat of the directory or
\* the walk failed returns 0.
C19_FailureReturnsZero ==
    \A t \in Threads :
        Returned(t) /\ sz[t].failed => sz[t].ret = 0

(***************************************************************************)
(* The streamed body                                                       *)
(***************************************************************************)

\* The chunks q are non-empty, none longer than FILE_CHUNK_SIZE, and laid end
\* to end they are the bytes 0 .. n-1 of the file in order.
ChunksOfPrefix(q, n) ==
    /\ \A i \in 1..Len(q) :
        /\ q[i].len >= 1
        /\ q[i].len <= FILE_CHUNK_SIZE
        /\ q[i].off = (IF i = 1 THEN 0 ELSE q[i - 1].off + q[i - 1].len)
    /\ n = (IF q = <<>> THEN 0 ELSE q[Len(q)].off + q[Len(q)].len)

\* C20: the body of a streamed file of S bytes is a sequence of non-empty
\* chunks of at most 16 KiB whose concatenation is the file byte for byte,
\* for S in {0, C-1, C, C+1, 10*C}; while the loop runs what was sent is a
\* prefix of the file, and the stream ends after the chunk that completes it.
C20_ChunksRebuildTheFile ==
    \A t \in Threads :
        stream[t].status = 200 /\ stream[t].kind = "content" =>
            /\ ChunksOfPrefix(stream[t].sent, stream[t].pos)
            /\ stream[t].pos <= stream[t].size
            /\ stream[t].pc = "done" /\ stream[t].exc = "" => stream[t].pos = stream[t].size

\* C20 witness: a file of ten chunk sizes was streamed to its end in ten
\* chunks, and an empty file was streamed to its end with no chunk.
C20_Witness ==
    \E t1, t2 \in Threads :
        /\ stream[t1].pc = "done"
        /\ stream[t1].size = 10 * FILE_CHUNK_SIZE
        /\ Len(stream[t1].sent) = 10
        /\ stream[t2].pc = "done"
        /\ stream[t2].status = 200
        /\ stream[t2].size = 0
        /\ stream[t2].sent = <<>>

\* The client of t left while the body was being sent.
LostClient(t) == stream[t].pc = "done" /\ stream[t].exc \in DisconnectErrors

\* C21: when the client disconnects during a transfer the handler logs at
\* warning level, tries no error response on that connection, closes the
\* file and returns normally.
C21_DisconnectEndsQuietly ==
    \A t \in Threads :
        LostClient(t) =>
            /\ stream[t].log = "warning"
            /\ stream[t].error_sent = 0
            /\ ~stream[t].open
            /\ ~stream[t].raised

(***************************************************************************)
(* Text files                                                              *)
(***************************************************************************)

\* A request for a text-like regular file has been answered.
AnsweredText(t) ==
    /\ th[t].req \in TextRequests
    /\ th[t].pc = "idle"
    /\ Facts[th[t].req].text_like
    /\ is_file(fs, Facts[th[t].req].full_path)

\* The flags of the query string of a request for a text file.
WantsContent(r) == Facts[r].action = vGetContent

WantsRender(r) == WantsContent(r) /\ Facts[r].render = vHtml

IsMarkup(r) == Lower(PathSuffix(Facts[r].full_path)) = sMd

\* The kind of response the flags select.
KindByFlags(r, markdown) ==
    IF ~WantsContent(r) THEN "viewer"
    ELSE IF WantsRender(r) /\ IsMarkup(r) /\ markdown THEN "rendered"
    ELSE "content"

\* C22: for a text-like file the kind of the response is determined by the
\* query flags: the viewer shell without action=get_content, the rendered
\* markup for render=html on a markdown file with the capability present,
\* the plain text stream in every other case of action=get_content.
C22_KindFollowsFlags ==
    \A t \in Threads :
        AnsweredText(t) =>
            /\ th[t].resp.status = 200
            /\ th[t].resp.kind = KindByFlags(th[t].req, MARKDOWN_AVAILABLE)

\* C23: a request for rendered markup (action=get_content and render=html
\* on a markdown file) is answered with a Server-Error status when the
\* markdown package is not available.
C23_NoCapabilityIsServerError ==
    \A t \in Threads :
        AnsweredText(t) /\ WantsRender(th[t].req) /\ IsMarkup(th[t].req)
                        /\ ~MARKDOWN_AVAILABLE =>
            th[t].resp.status >= 500

\* The request without its chunk_size parameter.
WithoutChunkSize(r) ==
    LET pieces == Split(SplitLast(r, "?"), "&")
        kept == [i \in 1..Len(pieces) |->
                    IF StartsWith(pieces[i], kChunkSize \o <<"=">>) THEN <<>>
                    ELSE <<"&">> \o pieces[i]]
    IN SplitHead(r, "?") \o Concat(kept)

ChunkSizeFree == [r \in TextRequests |-> WithoutChunkSize(r)]

\* C24: two answered content-fetch requests that differ only in chunk_size
\* have got the same response.
C24_ChunkSizeHasNoEffect ==
    \A t1, t2 \in Threads :
        /\ AnsweredText(t1)
        /\ AnsweredText(t2)
        /\ WantsContent(th[t1].req)
        /\ ChunkSizeFree[th[t1].req] = ChunkSizeFree[th[t2].req]
        => /\ th[t1].resp = th[t2].resp
           /\ th[t1].branch = th[t2].branch

(***************************************************************************)
(* Requests on other connections                                           *)
(***************************************************************************)

\* Connection c waits while the handler of another connection is blocked.
WaitsBehindBlocked(c) ==
    /\ srv.blocked
    /\ \E i \in 1..Len(srv.queue) : srv.queue[i] = c

\* C25: a request that arrives on another connection while a handler is
\* blocked is accepted and served to completion all the same.
C25_BlockedHandlerDelaysNoOne ==
    \A c \in Conns : WaitsBehindBlocked(c) ~> (c \in srv.served)

\* C32: a request gets at most one status line and header block: once the
\* headers of the 200 response are sent, the content streamer and the two
\* archive senders call send_error on no path.
C32_OneResponsePerRequest ==
    \A t \in Threads :
        /\ stream[t].responses <= 1
        /\ (stream[t].status = 200) => (stream[t].error_sent = 0)

(***************************************************************************)
(* The bind loop                                                           *)
(***************************************************************************)

\* C26: start_serve terminates a process only in response to a bind
\* conflict, the process terminated holds the port whose bind has just
\* failed, and each bind attempt after a failed one is on the next port.
C26_KillsOnlyTheConflictingHolder ==
    /\ \A i \in 1..Len(boot.kills) :
        /\ boot.kills[i].last_failed # 0
        /\ boot.kills[i].port = boot.kills[i].last_failed
    /\ \A i \in 2..Len(boot.binds) : boot.binds[i] = boot.binds[i - 1] + 1

\* The ways the bind loop ends: serve_forever runs on the bound port,
\* sys.exit(1), or the bind error is raised again.
BootEnds == {"serving", "exit", "raised"}

\* The ports bind was tried on begin with the initial port and increase
\* strictly; the port served on was free, and sys.exit is reached with a
\* port above 65535 only.
BindsInOrder ==
    /\ \A i \in 1..Len(boot.binds) :
          /\ boot.binds[i] \in boot.initial_port..MaxPort
          /\ (i = 1) => (boot.binds[i] = boot.initial_port)
          /\ (i > 1) => (boot.binds[i] > boot.binds[i - 1])
    /\ (boot.pc = "serving") => (HolderOf(boot, boot.binds[Len(boot.binds)]) = "free")
    /\ (boot.pc = "exit") => (boot.port > MaxPort)

\* C31: the bind loop ends.  The ports bind is tried on begin with the
\* initial port and increase strictly, so none is tried twice and none is
\* above 65535; a start_serve that has begun ends by serving on the port it
\* bound, by sys.exit once the port exceeds 65535, or by raising again a
\* bind error other than a port conflict.
C31_BindLoopTerminates ==
    /\ []BindsInOrder
    /\ (boot.pc = "kill_initial") ~> (boot.pc \in BootEnds)

\* The server serves on the third port tried.
C31_Witness ==
    /\ boot.pc = "serving"
    /\ Len(boot.binds) = 3

(***************************************************************************)
(* The pagination controls (SpecPager)                                     *)
(***************************************************************************)

\* The controls of the page shown, without the previous and next controls.
Numbered == SubSeq(pager.links, 2, Len(pager.links) - 1)

\* The positions of Numbered that stand for a page, in order.
NumberedAt == {i \in 1..Len(Numbered) : Numbered[i].label \in {"number", "current"}}

WindowLo == Max(1, pager.page - 2)
WindowHi == Min(pager.total_pages, pager.page + 2)

\* The pages that must have a numbered entry: the window and the shortcuts.
PagesShown ==
    (WindowLo..WindowHi)
        \cup (IF WindowLo > 1 THEN {1} ELSE {})
        \cup (IF WindowHi < pager.total_pages THEN {pager.total_pages} ELSE {})

IsLinkTo(e, label, p) == e.tag = "a" /\ e.label = label /\ e.page = p
IsDisabled(e, label) == e.tag = "span" /\ e.label = label

\* C27: for current page p of T pages, 'previous' is a link to p-1 iff
\* p > 1 and disabled otherwise, 'next' is a link to p+1 iff p < T and
\* disabled otherwise; the numbered entries are, in ascending order and once
\* each, exactly the pages of [max(1,p-2), min(T,p+2)] plus page 1 iff the
\* window starts after it and page T iff the window ends before it; p is
\* not a link and every other numbered entry is one; an ellipsis stands
\* between two entries iff at least one page between them is skipped; every
\* link targets a page of 1..T.
C27_ControlsOfPage ==
    pager.listed =>
        LET p == pager.page
            T == pager.total_pages
            n == Len(pager.links)
        IN /\ n >= 3
           /\ IF p > 1 THEN IsLinkTo(pager.links[1], "prev", p - 1)
              ELSE IsDisabled(pager.links[1], "prev")
           /\ IF p < T THEN IsLinkTo(pager.links[n], "next", p + 1)
              ELSE IsDisabled(pager.links[n], "next")
           /\ \A i \in 1..Len(Numbered) :
                 Numbered[i].label \in {"number", "current", "ellipsis"}
           /\ {Numbered[i].page : i \in NumberedAt} = PagesShown
           /\ Cardinality(NumberedAt) = Cardinality(PagesShown)
           /\ \A i, j \in NumberedAt : i < j => Numbered[i].page < Numbered[j].page
           /\ \A i \in NumberedAt :
                 IF Numbered[i].page = p THEN IsDisabled(Numbered[i], "current")
                 ELSE IsLinkTo(Numbered[i], "number", Numbered[i].page)
           /\ \A i \in 1..Len(Numbered) :
                 Numbered[i].label = "ellipsis" =>
                    /\ Numbered[i].tag = "span"
                    /\ i - 1 \in NumberedAt /\ i + 1 \in NumberedAt
                    /\ Numbered[i + 1].page > Numbered[i - 1].page + 1
           /\ \A i \in NumberedAt :
                 i + 1 \in NumberedAt => Numbered[i + 1].page = Numbered[i].page + 1
           /\ \A i \in 1..n : pager.links[i].tag = "a" => pager.links[i].page \in 1..T

\* A page whose window reaches neither edge: both shortcuts, both ellipses.
C27_Witness ==
    /\ pager.listed
    /\ pager.page = 5
    /\ pager.total_pages = 9
    /\ Len(pager.links) = 11

\* C28: a pagination link that is followed is answered by a listing of the
\* page the link names, filtered by the search term of the page the link
\* was on.
C28_LinkKeepsSearch ==
    pager.followed =>
        /\ pager.listed
        /\ pager.search = pager.origin
        /\ pager.page = pager.target

(***************************************************************************)
(* The capacity of the size cache (SpecLru)                                *)
(***************************************************************************)

\* The entries a cache holds.
Entries(cache) == {cache[i] : i \in 1..Len(cache)}

\* The call that used an entry last: the call that stored it, the
\* e.key[1]-th of the run, since no later call has the key of an earlier one.
LastUse(e) == e.key[1]

\* C29: the size cache never holds more than 128 entries, and a store into
\* a full cache removes exactly one entry, the one used least recently, and
\* keeps all the others.
C29_BoundedAndEvictsLeastRecent ==
    [][/\ Len(size_cache') <= LRU_MAXSIZE
       /\ (Len(size_cache) = LRU_MAXSIZE /\ size_cache' # size_cache) =>
             LET gone == Entries(size_cache) \ Entries(size_cache')
                 come == Entries(size_cache') \ Entries(size_cache)
             IN /\ Cardinality(gone) = 1
                /\ Cardinality(come) = 1
                /\ Len(size_cache') = LRU_MAXSIZE
                /\ \A e \in gone : \A k \in Entries(size_cache) : LastUse(e) <= LastUse(k)]_vars

\* The cache is full and has dropped entries.
C29_Witness ==
    /\ Len(size_cache) = LRU_MAXSIZE
    /\ \A i \in 1..Len(size_cache) : LastUse(size_cache[i]) > 1
    /\ nreq > LRU_MAXSIZE + 1

(***************************************************************************)
(* Two handlers computing the size of D at once (SpecSize)                 *)
(***************************************************************************)

\* Call b began while call a was between its stat and its return, both
\* walked D to the end, and D's st_mtime was the same when each began and
\* when each returned: D did not change from the start of a to the return
\* of the later of the two.
WalkedTogether(a, b) ==
    /\ a \in hist.calls[b].during
    /\ hist.calls[a].ret # -1 /\ hist.calls[b].ret # -1
    /\ hist.calls[a].walked /\ hist.calls[b].walked
    /\ ~hist.calls[a].failed /\ ~hist.calls[b].failed
    /\ hist.calls[a].mtime = hist.calls[b].mtime
    /\ hist.calls[a].until = hist.calls[a].mtime
    /\ hist.calls[b].until = hist.calls[b].mtime

\* The totals the cache holds for a call's key.
CachedFor(c) ==
    {size_cache[i].value :
        i \in {j \in 1..Len(size_cache) :
                 size_cache[j].key = CacheKey(c, SizedDir, hist.calls[c].mtime)}}

OwnSize(entries, i) ==
    CASE entries[i] = "file" -> StatOf(i).st_size
      [] entries[i] = "dir"  -> FolderSizeOf(i)
      [] OTHER               -> NA

OwnDate(entries, i) == IF entries[i] = "gone" THEN NA ELSE StatOf(i).st_mtime

\* C34: every listing is answered, with one row per entry of the page, and
\* each row shows the size and the modification date of its own entry, or
\* N/A for an entry that cannot be stat'ed.
C34_RowShowsOwnStat ==
    listing.entries # <<>> =>
        /\ listing.status = 200
        /\ Len(listing.rows) = Len(listing.entries)
        /\ \A i \in 1..Len(listing.rows) :
              /\ listing.rows[i].entry = i
              /\ listing.rows[i].size = OwnSize(listing.entries, i)
              /\ listing.rows[i].mod_time = OwnDate(listing.entries, i)

(***************************************************************************)
(* The viewer shells (SpecText)                                            *)
(***************************************************************************)

\* The viewer shells that have been sent.
ViewerShells == {th[t].resp.html : t \in {u \in Threads : th[u].resp.kind = "viewer"}}

\* C36: in every viewer shell, the code viewer and the markup viewer alike,
\* the file name and the raw URL taken from the request are written in
\* escaped form: neither holds a raw '<', '>' or '&', and the raw URL, the
\* value of an attribute, no raw quote either.
C36_ShellEmbedsEscaped ==
    \A shell \in ViewerShells :
        /\ PieceSafe(shell.filename)
        /\ FullyEscaped(shell.raw_url.s)

(***************************************************************************)
(* The total after changes inside a subdirectory (SpecNested)              *)
(***************************************************************************)

\* Call c has returned and D's files were the same when it began and when
\* it returned.
ReturnedUnchanged(c) ==
    /\ hist.calls[c].ret # -1
    /\ hist.calls[c].after = hist.calls[c].tree

LockHeldInsideOnly ==
    \A t \in Threads : (lock = t) <=> (th[t].pc \in BuildSection)

\* Thread t has an archive request whose do_GET has returned after a
\* response was sent.
Answered(t) == th[t].pc = "idle" /\ th[t].resp.status # 0

====
